---- MODULE Spec2Model ----
(***************************************************************************)
(* Model of the engine core of 2d-platform-engine: the scheduler           *)
(* (engine/core/Engine.ts), the service registry and its capability views  *)
(* (engine/core/Services.ts), the event bus (engine/core/EventBus.ts), the *)
(* render queue and the RenderCoordinator (modules/render-coordinator).    *)
(*                                                                         *)
(* Time is counted in clock units; FixedStep clock units are one fixed     *)
(* step (1/60 s).  The accumulator is kept exactly (no rounding).          *)
(***************************************************************************)
EXTENDS Integers, Sequences, FiniteSets, TLC

\* ------------------------------------------------------------------ bounds
MaxOffs    == 3          \* on() calls whose unsubscribe function is kept
MaxModules == 2          \* modules added before init()
MaxTime    == 7          \* the host clock stops advancing here
MaxLag     == 2          \* a frame timestamp is at most this far behind now
MaxCmds    == 3          \* render commands held by the queue at a time
MaxStops   == 2          \* stop() calls that reach a destroy hook

\* --------------------------------------------------------------- constants
FixedStep == 2           \* createTime(1/60), in clock units

\* the hook calls of a frame: update rounds for the time since the last frame,
\* then the render hooks
MaxCalls == ((MaxTime \div FixedStep) + 1) * MaxModules

ModuleIds == {"a", "b", "c"}

\* Module hooks are optional (m.update?.(...)): module "c" has no update hook.
\* The RenderCoordinator module has the hooks init, start and render.
Coordinator == "render/coordinator"

HasHook(m, hook) ==
  /\ ~(m = "c" /\ hook = "update")
  /\ m = Coordinator => hook \in {"init", "start", "render"}

Tokens == {"T1", "T2"}

\* Values a module may register: 0 stands for the falsy ones (0, "", false,
\* null), the others for objects.
StoredValues == {0, 1, 2}
NotSet == -1                \* no entry in the bag
Absent == -2                \* JavaScript undefined

\* opts.resolveWhitelist(m): the tokens module m may read after init()
ResolveWhitelist(m) ==
  CASE m = "a" -> {"T1"}
    [] m = "b" -> {"T1", "T2"}
    [] OTHER   -> {}

\* Event types and handler functions of the bus
Types == {"A", "B"}
Handlers == {"h1", "h2"}

VARIABLES
  modules,      \* Engine.modules: sequence of module ids, in registration order
  running,      \* Engine.running
  last,         \* Engine.last
  accumulator,  \* services.time.accumulator
  pc,           \* position of run(): setup, init, inited, start, running, stopped
  idx,          \* index of the module whose hook init()/start() is awaiting
  lifecycle,    \* per module: its init and start hooks, each none, pending or done
  rafPending,   \* a requestAnimationFrame callback is scheduled
  rafExtra,     \* number of further frame callbacks scheduled besides that one
  now,          \* performance.now()
  rafT,         \* timestamp of the latest frame delivered by the host
  startT,       \* value of performance.now() recorded by start()
  rounds,       \* number of update rounds executed since start()
  ticked,       \* a frame callback has run the loop body since start()
  frameLog,     \* hook invocations of the latest frame callback, in order
  alpha,        \* alpha handed to render in the latest frame, as num/den
  destroyed,    \* per module: number of destroy() calls
  destroyLog,   \* destroy() calls in call order, tagged with the number of the stop()
  moduleCtxs,   \* Engine.moduleCtxs: per module, the key set of its ServicesView
  bag,          \* createServices: bag, token -> stored value or NotSet
  lastSet,      \* per token, the value of the latest set() call (NotSet: none)
  lateSet,      \* tokens set after the views of moduleCtxs were built
  lastCall,     \* the latest call a hook made on its ServicesView, with its result
  handlers,     \* createEventBus: handlers, type -> handler set in insertion order
  offs,         \* unsubscribe functions returned by on(): type, handler, called
  busLog,       \* handler and onEvent invocations of the latest emit, in order
  busSnap,      \* handlers subscribed to the emitted type when emit was called
  busEvent,     \* type of the latest emitted event ("" before the first emit)
  busThrown,    \* the latest emit was left by an exception
  byPass,       \* createRenderQueueService: byPass, pass id -> command buffer
  pending,      \* per pass id, the commands pushed since its last drain or clear
  drainOut,     \* the latest drain() call: pass id, returned array, pending before
  cam,          \* createCamera2DService: cam
  backendLog,   \* backend calls of RenderCoordinator.render(), when it was the
                \* latest operation on the queue or the camera (else <<>>)
  drained,      \* per configured pass, what that render() drained
  pushedLog,    \* commands pushed by the render hooks of the latest frame
  camSubs,      \* createCamera2DService: subs, in insertion order
  camCall,      \* the latest call of set, replace or follow, when it was the
                \* latest operation on the camera service: what it notified
  panels,       \* DebugOverlayModule: panels, the ids of the Map in insertion order
  activePanel,  \* DebugOverlayModule: activePanel (NoPanel: undefined)
  overlayVisible, \* DebugOverlayModule: visible
  overlaySubs,  \* event types whose handler of the overlay is subscribed on the bus
  overlayPc,    \* the overlay module: created, inited or destroyed
  clip,         \* Animator._clip (normalised)
  animTime,     \* Animator._time, in ticks of 1/24 s
  animIndex,    \* Animator._index
  animDir,      \* Animator._dir
  finished,     \* Animator._finished
  plays         \* number of play() calls made so far

engineVars == <<modules, running, last, accumulator, pc, idx, lifecycle,
                rafPending, rafExtra, now, rafT, startT, rounds, ticked, frameLog,
                alpha, destroyed, destroyLog, moduleCtxs>>

svcVars == <<bag, lastSet, lateSet, lastCall>>

busVars == <<handlers, offs, busLog, busSnap, busEvent, busThrown>>

renderVars == <<byPass, pending, drainOut, cam, backendLog, drained, pushedLog,
                camSubs, camCall>>

utilVars == <<panels, activePanel, overlayVisible, overlaySubs, overlayPc,
              clip, animTime, animIndex, animDir, finished, plays>>

vars == <<engineVars, svcVars, busVars, renderVars, utilVars>>

Indices == 1..Len(modules)

\* ------------------------------------------------------------------ await
\* (mutant) the hook is called without await
Await_NoWait(promise) == TRUE

\* `await p` resumes the async function only once p has settled.
Await(promise) == promise = "done"

\* ------------------------------------------------------------ constructor
EngineInit ==
  /\ modules = <<>>
  /\ running = FALSE
  /\ last = 0
  /\ accumulator = 0
  /\ pc = "setup"
  /\ idx = 0
  /\ lifecycle = <<>>
  /\ rafPending = FALSE
  /\ rafExtra = 0
  /\ now = 0
  /\ rafT = 0
  /\ startT = 0
  /\ rounds = 0
  /\ ticked = FALSE
  /\ frameLog = <<>>
  /\ alpha = [num |-> 0, den |-> 1]
  /\ destroyed = <<>>
  /\ destroyLog = <<>>
  /\ moduleCtxs = <<>>

\* ------------------------------------------------------- createServices
ServicesInit ==
  /\ bag = [t \in Tokens |-> NotSet]
  /\ lastSet = [t \in Tokens |-> NotSet]
  /\ lateSet = {}
  /\ lastCall = [op |-> "none"]

\* !v
Falsy(v) == v \in {Absent, 0}

get(t) == IF bag[t] = NotSet THEN Absent ELSE bag[t]

has(t) == bag[t] # NotSet

getOrThrow(t) ==
  IF Falsy(get(t))
    THEN [kind |-> "error", name |-> "Missing service", token |-> t]
    ELSE [kind |-> "value", v |-> get(t)]

set(b, t, v) == [b EXCEPT ![t] = v]

\* view(whitelist): the view keeps the key set; get/has read the shared bag
view(whitelist) == {w \in Tokens : w \in whitelist}

\* (mutant) the view hands out every token of the bag
guard_Open(allowed, t) == get(t)

guard(allowed, t) == IF t \notin allowed THEN Absent ELSE get(t)

guardOrThrow(allowed, t) ==
  IF t \notin allowed
    THEN [kind |-> "error", name |-> "Unauthorized service access", token |-> t]
    ELSE getOrThrow(t)

hasGuarded(allowed, t) == t \in allowed /\ has(t)

\* services.set(t, v), by an init hook or through engine.context
SvcSet(t, v) ==
  /\ bag' = set(bag, t, v)
  /\ lastSet' = [lastSet EXCEPT ![t] = v]
  /\ lateSet' = IF moduleCtxs # <<>> THEN lateSet \cup {t} ELSE lateSet
  /\ UNCHANGED lastCall
  /\ UNCHANGED <<engineVars, busVars, renderVars, utilVars>>

\* (mutant) the view hands out the registry's set as well
ViewOps_WithSet == {"get", "getOrThrow", "has", "set"}

\* the operations of the object view() returns
ViewOps == {"get", "getOrThrow", "has"}

\* what the call does to the bag, and what it returns
viewCall(b, allowed, op, t, v) ==
  CASE op = "get" -> [bag |-> b, result |-> [kind |-> "value", v |-> guard(allowed, t)]]
    [] op = "getOrThrow" -> [bag |-> b, result |-> guardOrThrow(allowed, t)]
    [] op = "has" -> [bag |-> b, result |-> [kind |-> "bool", b |-> hasGuarded(allowed, t)]]
    [] op = "set" -> [bag |-> set(b, t, v), result |-> [kind |-> "undefined"]]

\* A start, update, render or onEvent hook of module i calls an operation of
\* ctx.services, the view init() built for it.
ViewCall(i, op, t, v) ==
  /\ i \in 1..Len(moduleCtxs)
  /\ lifecycle[i].start = "pending" \/ pc = "running"
  /\ op \in ViewOps
  /\ LET r == viewCall(bag, moduleCtxs[i], op, t, v)
     IN  /\ bag' = r.bag
         /\ lastCall' = [op |-> op, m |-> i, token |-> t, result |-> r.result]
  /\ UNCHANGED <<lastSet, lateSet>>
  /\ UNCHANGED <<engineVars, busVars, renderVars, utilVars>>

\* ------------------------------------------------------- createEventBus
BusInit ==
  /\ handlers = [ty \in Types |-> <<>>]
  /\ offs = <<>>
  /\ busLog = <<>>
  /\ busSnap = <<>>
  /\ busEvent = ""
  /\ busThrown = FALSE

\* (mutant) add without looking for the handler in the set
SetAdd_Dup(s, h) == Append(s, h)

\* Set.add and Set.delete on a Set, which iterates in insertion order
SetAdd(s, h) == IF \E i \in 1..Len(s) : s[i] = h THEN s ELSE Append(s, h)

SetDelete(s, h) == SelectSeq(s, LAMBDA x : x # h)

\* on(type, handler): handlers.get(type).add(handler), creating the set if absent
on(hs, ty, h) == [hs EXCEPT ![ty] = SetAdd(@, h)]

\* the function returned by on(type, handler); an empty set is dropped from
\* the map, which reads the same as an empty one
off(hs, ty, h) == [hs EXCEPT ![ty] = SetDelete(@, h)]

\* What a handler does when it is invoked: nothing, subscribe a handler to the
\* type being dispatched (keeping the unsubscribe function while fewer than
\* MaxOffs are kept), call the unsubscribe function kept for a handler of that
\* type, emit an event of type "B" (when it handles an "A"), or throw.
NominalBehaviours ==
  {<<"noop">>, <<"emit">>}
    \cup {<<"on", h>> : h \in Handlers}
    \cup {<<"off", h>> : h \in Handlers}

\* the kept unsubscribe functions of handler h for type ty
Kept(fs, ty, h) == {k \in 1..Len(fs) : fs[k].type = ty /\ fs[k].handler = h}

\* the handlers an emit of type ty can reach: the subscribers of ty and, as a
\* handler of "A" may emit a "B", those of "B"
Reached(ty) ==
  {h \in Handlers : \E i \in 1..Len(handlers[ty]) : handlers[ty][i] = h}
    \cup (IF ty = "A"
            THEN {h \in Handlers : \E i \in 1..Len(handlers["B"]) : handlers["B"][i] = h}
            ELSE {})

\* behaviour b of handler h does something during an emit of type ty: the
\* handler is called, an unsubscribe function it calls exists, an event it
\* emits has a handler or a module to go to
Effective(ty, h, b) ==
  \/ b = <<"noop">>
  \/ /\ h \in Reached(ty)
     /\ b[1] = "on" => Len(offs) < MaxOffs
     /\ b[1] = "off" => \E t \in Types : Kept(offs, t, b[2]) # {}
     /\ b[1] = "emit" =>
           /\ ty = "A"
           /\ \E i \in 1..Len(handlers["A"]) : handlers["A"][i] = h
           /\ handlers["B"] # <<>> \/ modules # <<>>

\* one behaviour per handler; behaviours that would do nothing are left out
Plans(ty, behaviours) ==
  {p \in [Handlers -> behaviours] : \A h \in Handlers : Effective(ty, h, p[h])}

Behaviours == NominalBehaviours \cup {<<"throw">>}

\* What a module's onEvent hook does: return or throw.
HookBehaviours == {"ok", "throw"}

\* for (i...) { try { m.onEvent?.(ctx, e) } catch (err) { console.error } }
RECURSIVE FanOut(_, _, _, _)
\* (mutant) an event goes to one module per id, the first registered with it
FanOut_PerId(st, i, ev, mplan) ==
  IF i > Len(modules) THEN st
  ELSE FanOut(
         IF HasHook(modules[i], "onEvent") /\ \A k \in 1..(i - 1) : modules[k] # modules[i]
           THEN [st EXCEPT !.log = Append(@, [kind |-> "onEvent", who |-> modules[i],
                                              at |-> i, ev |-> ev, ty |-> "",
                                              threw |-> mplan[i] = "throw"])]
           ELSE st,
         i + 1, ev, mplan)

FanOut(st, i, ev, mplan) ==
  IF i > Len(modules) THEN st
  ELSE FanOut(
         IF HasHook(modules[i], "onEvent")
           THEN [st EXCEPT !.log = Append(@, [kind |-> "onEvent", who |-> modules[i],
                                              at |-> i, ev |-> ev, ty |-> "",
                                              threw |-> mplan[i] = "throw"])]
           ELSE st,
         i + 1, ev, mplan)

RECURSIVE Dispatch(_, _, _, _, _, _, _)
RECURSIVE emit(_, _, _, _)

\* h(ev): the call of one handler, with what the handler does
Invoke(st, h, i, ty, ev, plan, mplan) ==
    LET b  == plan[h]
        s1 == [st EXCEPT !.log = Append(@, [kind |-> "handler", who |-> h,
                                            at |-> i, ev |-> ev, ty |-> ty,
                                            threw |-> b[1] = "throw"])]
        s2 == CASE b[1] = "on" ->
                     [s1 EXCEPT !.h = on(@, ty, b[2]),
                                !.offs = IF Len(@) < MaxOffs
                                           THEN Append(@, [type |-> ty, handler |-> b[2],
                                                           called |-> FALSE])
                                           ELSE @,
                                !.log = Append(@, [kind |-> "on", who |-> b[2],
                                                   at |-> i, ev |-> ev, ty |-> ty,
                                                   threw |-> FALSE])]
                [] b[1] = "off" /\ Kept(s1.offs, ty, b[2]) # {} ->
                     LET k == CHOOSE x \in Kept(s1.offs, ty, b[2]) :
                                \A y \in Kept(s1.offs, ty, b[2]) : x <= y
                     IN  [s1 EXCEPT !.h = off(@, ty, b[2]),
                                    !.offs[k].called = TRUE,
                                    !.log = Append(@, [kind |-> "off", who |-> b[2],
                                                       at |-> i, ev |-> ev, ty |-> ty,
                                                       threw |-> FALSE])]
                [] b[1] = "emit" /\ ty = "A" -> emit(s1, "B", plan, mplan)
                [] b[1] = "throw" -> [s1 EXCEPT !.thrown = TRUE]
                [] OTHER -> s1
    IN  s2

\* (mutant) the loop walks the live handler set instead of the snapshot
Dispatch_Live(st, snapshot, i, ty, ev, plan, mplan) ==
  IF i > Len(st.h[ty]) THEN st
  ELSE LET s2 == Invoke(st, st.h[ty][i], i, ty, ev, plan, mplan)
       IN  IF s2.thrown THEN s2
           ELSE Dispatch(s2, snapshot, i + 1, ty, ev, plan, mplan)

\* for (const h of snapshot) h(ev)
Dispatch(st, snapshot, i, ty, ev, plan, mplan) ==
  IF i > Len(snapshot) THEN st
  ELSE LET s2 == Invoke(st, snapshot[i], i, ty, ev, plan, mplan)
       IN  IF s2.thrown THEN s2
           ELSE Dispatch(s2, snapshot, i + 1, ty, ev, plan, mplan)

\* createEventBus().emit
origEmit(st, ty, ev, plan, mplan) ==
  IF st.h[ty] = <<>> THEN st
  ELSE Dispatch(st, st.h[ty], 1, ty, ev, plan, mplan)

\* bus.emit as the Engine constructor replaces it: origEmit, then the fan-out
emit(st, ty, plan, mplan) ==
  LET ev == st.nev + 1
      s1 == origEmit([st EXCEPT !.nev = ev], ty, ev, plan, mplan)
  IN  IF s1.thrown THEN s1 ELSE FanOut(s1, 1, ev, mplan)

\* bus.on(ty, h) outside a dispatch; the caller keeps the unsubscribe function
On(ty, h) ==
  /\ Len(offs) < MaxOffs
  /\ handlers' = on(handlers, ty, h)
  /\ offs' = Append(offs, [type |-> ty, handler |-> h, called |-> FALSE])
  /\ busLog' = <<>> /\ busSnap' = <<>> /\ busEvent' = "" /\ busThrown' = FALSE
  /\ UNCHANGED <<engineVars, svcVars, renderVars, utilVars>>

\* a call of the k-th kept unsubscribe function outside a dispatch
Off(k) ==
  /\ k \in 1..Len(offs)
  /\ handlers' = off(handlers, offs[k].type, offs[k].handler)
  /\ offs' = [offs EXCEPT ![k].called = TRUE]
  /\ busLog' = <<>> /\ busSnap' = <<>> /\ busEvent' = "" /\ busThrown' = FALSE
  /\ UNCHANGED <<engineVars, svcVars, renderVars, utilVars>>

\* bus.emit({type: ty}) outside a dispatch
Emit(ty, plan, mplan) ==
  LET r == emit([h |-> handlers, offs |-> offs, log |-> <<>>, thrown |-> FALSE,
                 nev |-> 0], ty, plan, mplan)
  IN  /\ handlers' = r.h
      /\ offs' = r.offs
      /\ busLog' = r.log
      /\ busSnap' = handlers[ty]
      /\ busEvent' = ty
      /\ busThrown' = r.thrown
      /\ UNCHANGED <<engineVars, svcVars, renderVars, utilVars>>

\* an emit during which no bus handler throws
EmitNominal ==
  \E ty \in Types : \E plan \in Plans(ty, NominalBehaviours),
     mplan \in [Indices -> HookBehaviours] : Emit(ty, plan, mplan)

\* an emit during which a bus handler may throw
EmitThrowing ==
  \E ty \in Types : \E plan \in Plans(ty, Behaviours),
     mplan \in [Indices -> HookBehaviours] :
       /\ \E h \in Handlers : plan[h] = <<"throw">>
       /\ Emit(ty, plan, mplan)

\* an emit with modules listening: bus handlers return or emit
EmitFanOut ==
  \E ty \in Types : \E plan \in Plans(ty, {<<"noop">>, <<"emit">>}),
     mplan \in [Indices -> HookBehaviours] : Emit(ty, plan, mplan)

\* an emit with modules listening during which a bus handler throws
EmitFanOutThrowing ==
  \E ty \in Types : \E plan \in Plans(ty, {<<"noop">>, <<"emit">>, <<"throw">>}),
     mplan \in [Indices -> HookBehaviours] :
       /\ \E h \in Handlers : plan[h] = <<"throw">>
       /\ Emit(ty, plan, mplan)

\* an emit of an event no bus handler is subscribed to, once the modules are
\* all added; the onEvent hooks return
EmitToModules ==
  /\ pc # "setup"
  /\ Emit("A", [h \in Handlers |-> <<"noop">>], [i \in Indices |-> "ok"])

\* ------------------------------------------------------- render commands
\* Render commands (primitives/render.ts): z, id and aabb are optional fields,
\* x stands for the kind-specific geometry.
WorldCmds ==
  { [passId |-> "world", space |-> "world", layer |-> "terrain",
     renderMaterial |-> "m1", kind |-> "rect", x |-> 1, z |-> 1, id |-> "a",
     aabb |-> [x |-> 0, y |-> 0, w |-> 1, h |-> 1]],
    [passId |-> "world", space |-> "world", layer |-> "actors",
     renderMaterial |-> "m2", kind |-> "rect", x |-> 2,
     aabb |-> [x |-> 100, y |-> 100, w |-> 1, h |-> 1]],
    [passId |-> "world", space |-> "world", layer |-> "actors",
     renderMaterial |-> "m2", kind |-> "rect", x |-> 3],
    [passId |-> "world", space |-> "world", layer |-> "mystery",
     renderMaterial |-> "m1", kind |-> "circle", x |-> 4, z |-> -1, id |-> "b"],
    [passId |-> "world", space |-> "world", layer |-> "background",
     renderMaterial |-> "m1", kind |-> "rect", x |-> 5, z |-> -2] }

UiCmds ==
  { [passId |-> "ui", space |-> "ui", layer |-> "hud",
     renderMaterial |-> "m1", kind |-> "text", x |-> 6, z |-> 0, id |-> "a",
     aabb |-> [x |-> 100, y |-> 100, w |-> 1, h |-> 1]],
    [passId |-> "ui", space |-> "ui", layer |-> "debug",
     renderMaterial |-> "m1", kind |-> "text", x |-> 7, id |-> "b"] }

\* a command for a pass id no RenderCoordinator pass is configured with
FxCmds ==
  { [passId |-> "fx", space |-> "world", layer |-> "effects",
     renderMaterial |-> "m1", kind |-> "sprite", x |-> 8] }

Cmds == WorldCmds \cup UiCmds \cup FxCmds

QueuePassIds == {"ui", "foreground", "world", "background", "fx"}

\* ------------------------------------------------ createRenderQueueService
\* Map.get / Map.set on byPass, a function whose domain is the keys present
Buf(m, passId) == IF passId \in DOMAIN m THEN m[passId] ELSE <<>>

MapSet(m, k, v) == [q \in DOMAIN m \cup {k} |-> IF q = k THEN v ELSE m[q]]

registerPass(m, id) == IF id \notin DOMAIN m THEN MapSet(m, id, <<>>) ELSE m

\* push(cmd): arr = byPass.get(cmd.passId) ?? []; arr.push(cmd); byPass.set(...)
push(m, cmd) == MapSet(m, cmd.passId, Append(Buf(m, cmd.passId), cmd))

RECURSIVE pushMany(_, _)
\* pushMany(cmds): for (const c of cmds) this.push(c)
pushMany(m, cmds) ==
  IF cmds = <<>> THEN m ELSE pushMany(push(m, Head(cmds)), Tail(cmds))

clearPass(m, passId) == MapSet(m, passId, <<>>)

\* (mutant) drain returns the buffer and leaves it in the map
drain_Keep(m, passId) ==
  [out |-> Buf(m, passId), map |-> MapSet(m, passId, Buf(m, passId))]

\* drain(passId): arr = byPass.get(passId) ?? []; byPass.set(passId, []); return arr
drain(m, passId) == [out |-> Buf(m, passId), map |-> MapSet(m, passId, <<>>)]

\* number of commands held by the queue
Queued(m) ==
  LET RECURSIVE Sum(_)
      Sum(S) == IF S = {} THEN 0
                ELSE LET q == CHOOSE q \in S : TRUE IN Len(m[q]) + Sum(S \ {q})
  IN  Sum(DOMAIN m)

NoDrain == [passId |-> "", out |-> <<>>, expect |-> <<>>]

NoPending == [q \in QueuePassIds |-> <<>>]

RECURSIVE Pend(_, _)
\* pending after the commands cmds were pushed
Pend(pd, cmds) ==
  IF cmds = <<>> THEN pd
  ELSE Pend([pd EXCEPT ![Head(cmds).passId] = Append(@, Head(cmds))], Tail(cmds))

\* the camera the Camera2D module creates its service with (cfg.initial = {})
InitialCamera ==
  [position |-> [x |-> 0, y |-> 0], rotation |-> 0, zoom |-> 1, ppm |-> 50]

NoCall == [op |-> "none", changed |-> FALSE, notified |-> <<>>]

RenderInit ==
  /\ byPass = << >>
  /\ pending = NoPending
  /\ drainOut = NoDrain
  /\ cam = InitialCamera
  /\ backendLog = <<>>
  /\ drained = <<>>
  /\ pushedLog = <<>>
  /\ camSubs = <<>>
  /\ camCall = NoCall

RegisterPass(id) ==
  /\ byPass' = registerPass(byPass, id)
  /\ drainOut' = NoDrain
  /\ UNCHANGED <<pending, cam, camSubs, camCall, backendLog, drained, pushedLog>>
  /\ UNCHANGED <<engineVars, svcVars, busVars, utilVars>>

Push(cmd) ==
  /\ Queued(byPass) < MaxCmds
  /\ byPass' = push(byPass, cmd)
  /\ pending' = Pend(pending, <<cmd>>)
  /\ drainOut' = NoDrain
  /\ backendLog' = <<>>
  /\ drained' = <<>>
  /\ UNCHANGED <<cam, camSubs, camCall, pushedLog>>
  /\ UNCHANGED <<engineVars, svcVars, busVars, utilVars>>

PushMany(cmds) ==
  /\ Queued(byPass) + Len(cmds) <= MaxCmds
  /\ byPass' = pushMany(byPass, cmds)
  /\ pending' = Pend(pending, cmds)
  /\ drainOut' = NoDrain
  /\ UNCHANGED <<cam, camSubs, camCall, backendLog, drained, pushedLog>>
  /\ UNCHANGED <<engineVars, svcVars, busVars, utilVars>>

ClearPass(passId) ==
  /\ byPass' = clearPass(byPass, passId)
  /\ pending' = [pending EXCEPT ![passId] = <<>>]
  /\ drainOut' = NoDrain
  /\ UNCHANGED <<cam, camSubs, camCall, backendLog, drained, pushedLog>>
  /\ UNCHANGED <<engineVars, svcVars, busVars, utilVars>>

Drain(passId) ==
  LET r == drain(byPass, passId)
  IN  /\ byPass' = r.map
      /\ drainOut' = [passId |-> passId, out |-> r.out, expect |-> pending[passId]]
      /\ pending' = [pending EXCEPT ![passId] = <<>>]
      /\ UNCHANGED <<cam, camSubs, camCall, backendLog, drained, pushedLog>>
      /\ UNCHANGED <<engineVars, svcVars, busVars, utilVars>>

\* ------------------------------------------------- createCamera2DService
CameraPatches ==
  { [f \in {} |-> 0],
    [position |-> [x |-> 0, y |-> 0]],
    [position |-> [x |-> 100, y |-> 100]],
    [zoom |-> 1],
    [zoom |-> 2] }

\* { ...cam, ...patch }
Spread(c, patch) ==
  [f \in DOMAIN c \cup DOMAIN patch |-> IF f \in DOMAIN patch THEN patch[f] ELSE c[f]]

\* notify = () => subs.forEach((f) => f(cam)): the calls made, in order
notify(subs, c) == [k \in 1..Len(subs) |-> [fn |-> subs[k], value |-> c]]

\* A call of set, replace or follow that leaves next in cam, then notify().
CameraCall(op, next) ==
  /\ cam' = next
  /\ camCall' = [op |-> op, changed |-> (next # cam),
                 notified |-> notify(camSubs, next)]
  /\ backendLog' = <<>>
  /\ drained' = <<>>
  /\ UNCHANGED <<byPass, pending, drainOut, pushedLog, camSubs>>
  /\ UNCHANGED <<engineVars, svcVars, busVars, utilVars>>

\* set(patch) { cam = { ...cam, ...patch }; notify() }
CameraSet(patch) == CameraCall("set", Spread(cam, patch))

\* replace(next) { cam = { ...next }; notify() }
CameraReplace(next) == CameraCall("replace", next)

Abs(n) == IF n < 0 THEN -n ELSE n

Sign(n) == IF n > 0 THEN 1 ELSE IF n < 0 THEN -1 ELSE 0

\* one axis of follow: the coordinate after the call
followAxis(x, target, opts, axis) ==
  IF "deadzoneHalf" \in DOMAIN opts
    THEN LET dx == target - x
         IN  IF Abs(dx) > opts.deadzoneHalf[axis]
               THEN x + (dx - Sign(dx) * opts.deadzoneHalf[axis]) * opts.lerp
               ELSE x
    ELSE x + (target - x) * opts.lerp

\* follow(target, opts): cam = { ...cam, position: { x, y } }; notify()
CameraFollow(target, opts) ==
  CameraCall("follow",
    [cam EXCEPT !.position = [x |-> followAxis(cam.position.x, target.x, opts, "x"),
                              y |-> followAxis(cam.position.y, target.y, opts, "y")]])

CamFns == {"f1", "f2"}

\* onChange(fn) { subs.add(fn); ... }
CameraOnChange(fn) ==
  /\ camSubs' = SetAdd(camSubs, fn)
  /\ camCall' = NoCall
  /\ UNCHANGED <<byPass, pending, drainOut, cam, backendLog, drained, pushedLog>>
  /\ UNCHANGED <<engineVars, svcVars, busVars, utilVars>>

\* the function onChange returned: () => subs.delete(fn)
CameraUnsubscribe(fn) ==
  /\ camSubs' = SetDelete(camSubs, fn)
  /\ camCall' = NoCall
  /\ UNCHANGED <<byPass, pending, drainOut, cam, backendLog, drained, pushedLog>>
  /\ UNCHANGED <<engineVars, svcVars, busVars, utilVars>>

\* ------------------------------------------------------ RenderCoordinator
WORLD_LAYERS ==
  <<"background", "terrain", "props", "actors", "effects", "foreground", "overlay">>

UI_LAYERS == <<"hud-bg", "hud", "hud-fore", "debug">>

DEFAULT_PASSES ==
  << [id |-> "ui",         space |-> "ui",    layerOrder |-> UI_LAYERS],
     [id |-> "foreground", space |-> "world", layerOrder |-> WORLD_LAYERS],
     [id |-> "world",      space |-> "world", layerOrder |-> WORLD_LAYERS],
     [id |-> "background", space |-> "world", layerOrder |-> WORLD_LAYERS] >>

\* RenderCoordinator({ clearEachFrame: true }): cfg.passes is not given
passes == DEFAULT_PASSES

clearEachFrame == TRUE

\* the order of `<` on the strings that occur as material, kind or id
StrOrder == <<"", "a", "b", "circle", "m1", "m2", "rect", "sprite", "text">>

StrLess(a, b) ==
  \E i, j \in 1..Len(StrOrder) : StrOrder[i] = a /\ StrOrder[j] = b /\ i < j

\* (cam as any).viewAABB
ViewAABB(c) == IF "viewAABB" \in DOMAIN c THEN <<c.viewAABB>> ELSE <<>>

\* the filter predicate of cullAgainstCamera
Keep(v, c) ==
  IF "aabb" \notin DOMAIN c THEN TRUE
  ELSE /\ c.aabb.x + c.aabb.w >= v.x
       /\ c.aabb.x <= v.x + v.w
       /\ c.aabb.y + c.aabb.h >= v.y
       /\ c.aabb.y <= v.y + v.h

cullAgainstCamera(c, list) ==
  IF ViewAABB(c) = <<>> THEN list
  ELSE SelectSeq(list, LAMBDA e : Keep(ViewAABB(c)[1], e))

\* order.get(layer) ?? 0, for order = new Map(layerOrder.map((l, i) => [l, i]))
LayerRank(layerOrder, layer) ==
  LET at == {i \in 1..Len(layerOrder) : layerOrder[i] = layer}
  IN  IF at = {} THEN 0 ELSE (CHOOSE i \in at : \A j \in at : j <= i) - 1

Z(c) == IF "z" \in DOMAIN c THEN c.z ELSE 0

Id(c) == IF "id" \in DOMAIN c THEN c.id ELSE ""

\* (mutant) the comparator skips the z key
compare_NoZ(a, b, layerOrder) ==
  LET la == LayerRank(layerOrder, a.layer)
      lb == LayerRank(layerOrder, b.layer)
  IN  IF la # lb THEN la - lb
      ELSE IF a.renderMaterial # b.renderMaterial
        THEN (IF StrLess(a.renderMaterial, b.renderMaterial) THEN -1 ELSE 1)
      ELSE IF a.kind # b.kind THEN (IF StrLess(a.kind, b.kind) THEN -1 ELSE 1)
      ELSE IF StrLess(Id(a), Id(b)) THEN -1
      ELSE IF StrLess(Id(b), Id(a)) THEN 1 ELSE 0

\* the comparator handed to sort by sortCommands
compare(a, b, layerOrder) ==
  LET la == LayerRank(layerOrder, a.layer)
      lb == LayerRank(layerOrder, b.layer)
  IN  IF la # lb THEN la - lb
      ELSE IF Z(a) # Z(b) THEN Z(a) - Z(b)
      ELSE IF a.renderMaterial # b.renderMaterial
        THEN (IF StrLess(a.renderMaterial, b.renderMaterial) THEN -1 ELSE 1)
      ELSE IF a.kind # b.kind THEN (IF StrLess(a.kind, b.kind) THEN -1 ELSE 1)
      ELSE IF StrLess(Id(a), Id(b)) THEN -1
      ELSE IF StrLess(Id(b), Id(a)) THEN 1 ELSE 0

RECURSIVE Insert(_, _, _)
\* one step of a stable sort: c goes behind every element not greater than it
Insert(s, c, layerOrder) ==
  IF s = <<>> THEN <<c>>
  ELSE IF compare(s[Len(s)], c, layerOrder) > 0
    THEN Append(Insert(SubSeq(s, 1, Len(s) - 1), c, layerOrder), s[Len(s)])
    ELSE Append(s, c)

RECURSIVE sortCommands(_, _)
\* list.slice().sort(compare): Array.prototype.sort is stable
sortCommands(list, layerOrder) ==
  IF list = <<>> THEN <<>>
  ELSE Insert(sortCommands(SubSeq(list, 1, Len(list) - 1), layerOrder),
              list[Len(list)], layerOrder)

\* (mutant) a batch is cut by kind alone
SameBatch_KindOnly(a, b) == a.kind = b.kind

\* list[i].kind === k && list[i].renderMaterial === m
SameBatch(a, b) == a.kind = b.kind /\ a.renderMaterial = b.renderMaterial

RECURSIVE batchByKindAndMaterial(_)
\* the batches the generator yields, in order
batchByKindAndMaterial(list) ==
  IF list = <<>> THEN <<>>
  ELSE LET RECURSIVE Run(_)
           Run(i) == IF i <= Len(list) /\ SameBatch(list[i], list[1])
                       THEN Run(i + 1) ELSE i
           n == Run(1)
       IN  <<SubSeq(list, 1, n - 1)>>
             \o batchByKindAndMaterial(SubSeq(list, n, Len(list)))

\* (mutant) an empty pass is not skipped
IsEmpty_Never(cmds) == FALSE

\* !cmds.length
IsEmpty(cmds) == Len(cmds) = 0

NullCamera == [null |-> TRUE]

\* the body of the loop over the passes, for pass p and the drained cmds
PassCalls(p, cmds, c) ==
  IF IsEmpty(cmds) THEN <<>>
  ELSE LET camera  == IF p.space = "world" THEN c ELSE NullCamera
           visible == IF p.space = "world" THEN cullAgainstCamera(camera, cmds) ELSE cmds
           sorted  == sortCommands(visible, p.layerOrder)
           batches == batchByKindAndMaterial(sorted)
       IN  <<[op |-> "beginPass", passId |-> p.id, space |-> p.space, camera |-> camera]>>
             \o [k \in 1..Len(batches) |-> [op |-> "submitBatch", batch |-> batches[k]]]
             \o <<[op |-> "endPass"]>>

RECURSIVE RenderPasses(_, _)
\* for (const p of passes) { cmds = rq.drain(p.id); ... }
RenderPasses(st, i) ==
  IF i > Len(passes) THEN st
  ELSE LET r == drain(st.map, passes[i].id)
       IN  RenderPasses([map |-> r.map,
                         log |-> st.log \o PassCalls(passes[i], r.out, cam),
                         drained |-> Append(st.drained, r.out)], i + 1)

\* RenderCoordinator.render()
render(m) ==
  RenderPasses([map |-> m,
                log |-> IF clearEachFrame THEN <<[op |-> "clear"]>> ELSE <<>>,
                drained |-> <<>>], 1)

\* the render hook of the coordinator, called by a frame
Render ==
  LET r == render(byPass)
  IN  /\ byPass' = r.map
      /\ backendLog' = r.log
      /\ drained' = r.drained
      /\ pending' = [q \in QueuePassIds |->
                       IF \E i \in 1..Len(passes) : passes[i].id = q
                         THEN <<>> ELSE pending[q]]
      /\ drainOut' = NoDrain
      /\ UNCHANGED <<cam, camSubs, camCall, pushedLog>>
      /\ UNCHANGED <<engineVars, svcVars, busVars, utilVars>>

\* ------------------------------------------------------------ debug overlay
NoPanel == "undefined"

\* id of the built-in panel (generateId()) and ids that other modules register
BuiltinPanel == "overlay"
PanelIds == {"p1", "p2", "p3"}

\* the ids in the order orderedPanels() sorts their panels: all have order 0 and
\* the titles "Debug Overlay" < "P1" < "P2" < "P3"
SortedIds == <<BuiltinPanel, "p1", "p2", "p3">>

OverlayEvents == {"input/keydown", "debug/panel/register", "debug/panel/unregister"}

hotkey == "Backquote"      \* the default hotkey, the backquote key
nextKey == "]"
prevKey == "["
Keys == {hotkey, nextKey, prevKey, "x"}

ElemsOf(s) == {s[k] : k \in 1..Len(s)}

\* registerPanel(p): panels.set(id, panel); if (!activePanel) activePanel = id
registerPanel(st, id) ==
  [panels |-> IF id \in ElemsOf(st.panels) THEN st.panels ELSE Append(st.panels, id),
   activePanel |-> IF st.activePanel = NoPanel THEN id ELSE st.activePanel]

\* unregisterPanel(id)
unregisterPanel(st, id) ==
  LET rest == SelectSeq(st.panels, LAMBDA q : q # id)
  IN  [panels |-> rest,
       activePanel |-> IF st.activePanel = id
                         THEN (IF Len(rest) > 0 THEN rest[1] ELSE NoPanel)
                         ELSE st.activePanel]

orderedPanels(ps) == SelectSeq(SortedIds, LAMBDA q : q \in ElemsOf(ps))

\* list.findIndex(p => p.id === activePanel), 0 when absent; indices from 0
activeIndex(st) ==
  LET list == orderedPanels(st.panels)
      hits == {k \in 1..Len(list) : list[k] = st.activePanel}
  IN  IF hits = {} THEN 0 ELSE (CHOOSE k \in hits : TRUE) - 1

setActiveByIndex(st, i) ==
  LET list == orderedPanels(st.panels)
  IN  IF Len(list) = 0 THEN NoPanel
      ELSE list[(((i % Len(list)) + Len(list)) % Len(list)) + 1]

\* createDebugOverlay(): startVisible = false, the built-in panel registered
OverlayNew ==
  /\ panels = <<BuiltinPanel>>
  /\ activePanel = BuiltinPanel
  /\ overlayVisible = FALSE
  /\ overlaySubs = {}
  /\ overlayPc = "created"

\* ----------------------------------------------------------------- animator
MaxFrames == 3           \* frames of a clip
MaxDt == 3               \* dt of one update() call, in ticks of 1/24 s
MaxPlays == 2            \* play() calls

\* SpriteSheet.clips: frames 1..n of the sheet, loop and pingpong optional
SheetClips ==
  UNION {[frames : 1..MaxFrames],
         [frames : 1..MaxFrames, loop : BOOLEAN],
         [frames : 1..MaxFrames, pingpong : BOOLEAN],
         [frames : 1..MaxFrames, loop : BOOLEAN, pingpong : BOOLEAN]}

\* the clip the animator is constructed with
IdleClip == [frames |-> 1]

normalizeClip(c) ==
  [frames |-> c.frames,
   loop |-> IF "loop" \in DOMAIN c THEN c.loop ELSE TRUE,
   pingpong |-> IF "pingpong" \in DOMAIN c THEN c.pingpong ELSE FALSE]

\* frame 2 of the sheet has duration 3 ticks; the others take 1 / fps at the
\* default 12 FPS, 2 ticks
frameDuration(i) == IF i + 1 = 2 THEN 3 ELSE 2

clamp(n, a, b) == IF n < a THEN a ELSE IF n > b THEN b ELSE n

\* Animator.step()
step(st) ==
  LET lastI == st.clip.frames - 1
  IN  IF st.clip.pingpong
        THEN IF (st.dir > 0 /\ st.index >= lastI) \/ (st.dir < 0 /\ st.index <= 0)
               THEN LET d == -st.dir
                        i == clamp(st.index + d, 0, lastI)
                    IN  [st EXCEPT !.dir = d, !.index = i,
                                   !.finished =
                                     IF ~st.clip.loop /\ ((d < 0 /\ i <= 0) \/ (d > 0 /\ i >= lastI))
                                       THEN TRUE ELSE @]
               ELSE [st EXCEPT !.index = clamp(st.index + st.dir, 0, lastI)]
        ELSE IF st.index >= lastI
               THEN IF st.clip.loop THEN [st EXCEPT !.index = 0]
                                    ELSE [st EXCEPT !.finished = TRUE]
               ELSE [st EXCEPT !.index = @ + 1]

RECURSIVE Advance(_)
\* while (_time >= frameDuration(_index)) { _time -= ...; step(); if (_finished) break }
Advance(st) ==
  IF st.time >= frameDuration(st.index)
    THEN LET s1 == step([st EXCEPT !.time = @ - frameDuration(st.index)])
         IN  IF s1.finished THEN s1 ELSE Advance(s1)
    ELSE st

\* Animator.update(dt)
update(st, dt) ==
  IF st.finished THEN st ELSE Advance([st EXCEPT !.time = @ + dt])

\* new Animator(sheet, 'idle')
AnimatorNew ==
  /\ clip = normalizeClip(IdleClip)
  /\ animTime = 0
  /\ animIndex = 0
  /\ animDir = 1
  /\ finished = FALSE
  /\ plays = 0

Init == EngineInit /\ ServicesInit /\ BusInit /\ RenderInit /\ OverlayNew /\ AnimatorNew

\* -------------------------------------------------------------------- add
Add(m) ==
  /\ pc = "setup"
  /\ Len(modules) < MaxModules
  /\ modules' = Append(modules, m)
  /\ lifecycle' = Append(lifecycle, [init |-> "none", start |-> "none"])
  /\ destroyed' = Append(destroyed, 0)
  /\ UNCHANGED destroyLog
  /\ UNCHANGED <<running, last, accumulator, pc, idx, rafPending, rafExtra, now, rafT,
                 startT, rounds, ticked, frameLog, alpha, moduleCtxs>>
  /\ UNCHANGED <<svcVars, busVars, renderVars, utilVars>>

\* ------------------------------------------------------------- host clock
Tick ==
  /\ now < MaxTime
  /\ now' = now + 1
  /\ UNCHANGED <<modules, running, last, accumulator, pc, idx, lifecycle,
                 rafPending, rafExtra, rafT, startT, rounds, ticked, frameLog, alpha,
                 destroyed, destroyLog, moduleCtxs>>
  /\ UNCHANGED <<svcVars, busVars, renderVars, utilVars>>

\* An asynchronous init/start hook settles.
HookResolve(i, hook) ==
  /\ i \in Indices
  /\ lifecycle[i][hook] = "pending"
  /\ lifecycle' = [lifecycle EXCEPT ![i][hook] = "done"]
  /\ UNCHANGED <<modules, running, last, accumulator, pc, idx, rafPending, rafExtra,
                 now, rafT, startT, rounds, ticked, frameLog, alpha, destroyed,
                 destroyLog,
                 moduleCtxs>>
  /\ UNCHANGED <<svcVars, busVars, renderVars, utilVars>>

\* ------------------------------------------------------------------- init
\* (mutant) the init hooks are started together, none is awaited before the next
AwaitInit_All(lc, i) == TRUE

\* for (const m of this.modules) await m.init?.(this.initCtx)
AwaitInit(lc, i) == Await(lc[i].init)

\* One run of init() up to its next await (or to its end).
InitStep ==
  /\ pc \in {"setup", "init"}
  /\ pc = "init" => AwaitInit(lifecycle, idx)
  /\ IF (IF pc = "setup" THEN 0 ELSE idx) < Len(modules)
       THEN /\ idx' = (IF pc = "setup" THEN 0 ELSE idx) + 1
            /\ lifecycle' = [lifecycle EXCEPT ![idx'].init = "pending"]
            /\ pc' = "init"
            /\ UNCHANGED moduleCtxs
       ELSE /\ pc' = "inited"
            /\ idx' = 0
            /\ moduleCtxs' = [i \in Indices |-> view(ResolveWhitelist(modules[i]))]
            /\ UNCHANGED lifecycle
  /\ UNCHANGED <<modules, running, last, accumulator, rafPending, rafExtra, now, rafT,
                 startT, rounds, ticked, frameLog, alpha, destroyed, destroyLog>>
  /\ UNCHANGED <<svcVars, busVars, renderVars, utilVars>>

\* ------------------------------------------------------------------ start
StartStep ==
  /\ pc \in {"inited", "start"}
  /\ pc = "start" => Await(lifecycle[idx].start)
  /\ IF (IF pc = "inited" THEN 0 ELSE idx) < Len(modules)
       THEN /\ idx' = (IF pc = "inited" THEN 0 ELSE idx) + 1
            /\ lifecycle' = [lifecycle EXCEPT ![idx'].start = "pending"]
            /\ pc' = "start"
            /\ UNCHANGED <<running, last, startT, rafPending>>
       ELSE /\ pc' = "running"
            /\ idx' = 0
            /\ running' = TRUE
            /\ last' = now
            /\ startT' = now
            /\ rafPending' = TRUE
            /\ UNCHANGED lifecycle
  /\ UNCHANGED <<rafExtra, modules, accumulator, now, rafT, rounds, ticked, frameLog,
                 alpha, destroyed, destroyLog, moduleCtxs>>
  /\ UNCHANGED <<svcVars, busVars, renderVars, utilVars>>

\* ------------------------------------------------------------------ frame
RECURSIVE HookCalls(_, _, _)
\* (mutant) the loop runs from the last module to the first
HookCalls_Reversed(hook, i, tag) ==
  IF i > Len(modules) THEN <<>>
  ELSE HookCalls(hook, i + 1, tag)
       \o (IF HasHook(modules[i], hook)
             THEN <<[hook |-> hook, m |-> i, tag |-> tag]>> ELSE <<>>)

\* for (i = 0; i < modules.length; i++) modules[i].<hook>?.(...)
HookCalls(hook, i, tag) ==
  IF i > Len(modules) THEN <<>>
  ELSE (IF HasHook(modules[i], hook)
          THEN <<[hook |-> hook, m |-> i, tag |-> tag]>> ELSE <<>>)
       \o HookCalls(hook, i + 1, tag)

RECURSIVE CatchUp(_, _)
\* while (acc >= fixedStep) { update round; acc -= fixedStep }
\* returns the accumulator left and the log of update calls
CatchUp(acc, n) ==
  IF acc >= FixedStep
    THEN LET r == CatchUp(acc - FixedStep, n + 1)
         IN  [acc |-> r.acc, n |-> r.n,
              log |-> HookCalls("update", 1, n + 1) \o r.log]
    ELSE [acc |-> acc, n |-> n, log |-> <<>>]

\* the frame callback on the state of the engine
FrameLoop(t) ==
  /\ rafPending
  /\ t \in rafT..now
  /\ t >= now - MaxLag
  /\ rafT' = t
  /\ IF ~running
       THEN /\ rafPending' = FALSE
            /\ UNCHANGED <<last, accumulator, rounds, ticked, frameLog, alpha>>
       ELSE LET r == CatchUp(accumulator + (t - last), 0)
            IN  /\ last' = t
                /\ accumulator' = r.acc
                /\ rounds' = rounds + r.n
                /\ ticked' = TRUE
                /\ alpha' = [num |-> r.acc, den |-> FixedStep]
                /\ frameLog' = r.log \o HookCalls("render", 1, 0)
                /\ rafPending' = TRUE
  /\ UNCHANGED <<rafExtra, modules, running, pc, idx, lifecycle, now, startT, destroyed,
                 destroyLog, moduleCtxs>>

\* a frame whose render hooks leave the render queue alone
Frame(t) ==
  /\ FrameLoop(t)
  /\ UNCHANGED <<svcVars, busVars, renderVars, utilVars>>

\* (mutant) the exception is caught and the frame goes on with the next hook
FrameCalls_Caught(full, k) ==
  SubSeq(full, 1, k)
    \o <<[hook |-> "throw", m |-> full[k].m, tag |-> full[k].tag]>>
    \o SubSeq(full, k + 1, Len(full))

\* the hook calls of a frame whose k-th hook call throws: nothing catches the
\* exception, it leaves both loops and the frame callback
FrameCalls(full, k) ==
  SubSeq(full, 1, k) \o <<[hook |-> "throw", m |-> full[k].m, tag |-> full[k].tag]>>

\* a frame in which the k-th hook call throws
FrameThrowing(t, k) ==
  /\ rafPending
  /\ running
  /\ t \in rafT..now
  /\ t >= now - MaxLag
  /\ rafT' = t
  /\ LET r    == CatchUp(accumulator + (t - last), 0)
         full == r.log \o HookCalls("render", 1, 0)
         done == IF full[k].hook = "update" THEN full[k].tag - 1 ELSE r.n
     IN  /\ k \in 1..Len(full)
         /\ last' = t
         /\ accumulator' = accumulator + (t - last) - done * FixedStep
         /\ rounds' = rounds + done
         /\ ticked' = TRUE
         /\ alpha' = IF full[k].hook = "render"
                       THEN [num |-> r.acc, den |-> FixedStep] ELSE alpha
         /\ frameLog' = FrameCalls(full, k)
         /\ rafPending' = FALSE
  /\ UNCHANGED <<rafExtra, modules, running, pc, idx, lifecycle, now, startT, destroyed,
                 destroyLog, moduleCtxs>>
  /\ UNCHANGED <<svcVars, busVars, renderVars, utilVars>>

\* a frame in which the k-th hook call calls stop(): stop() clears the running
\* flag and calls the destroy hooks at once, then the frame goes on
FrameStopping(t, k) ==
  /\ rafPending
  /\ running
  /\ Len(destroyLog) < MaxStops * Len(modules)
  /\ t \in rafT..now
  /\ t >= now - MaxLag
  /\ rafT' = t
  /\ LET r    == CatchUp(accumulator + (t - last), 0)
         full == r.log \o HookCalls("render", 1, 0)
         n    == IF destroyLog = <<>> THEN 1 ELSE destroyLog[Len(destroyLog)].tag + 1
     IN  /\ k \in 1..Len(full)
         /\ last' = t
         /\ accumulator' = r.acc
         /\ rounds' = rounds + r.n
         /\ ticked' = TRUE
         /\ alpha' = [num |-> r.acc, den |-> FixedStep]
         /\ frameLog' = SubSeq(full, 1, k) \o HookCalls("destroy", 1, n)
                          \o SubSeq(full, k + 1, Len(full))
         /\ destroyLog' = destroyLog \o HookCalls("destroy", 1, n)
         /\ rafPending' = TRUE
  /\ running' = FALSE
  /\ pc' = "stopped"
  /\ destroyed' = [i \in Indices |->
                     IF HasHook(modules[i], "destroy") THEN destroyed[i] + 1
                     ELSE destroyed[i]]
  /\ UNCHANGED <<rafExtra, modules, idx, lifecycle, now, startT, moduleCtxs>>
  /\ UNCHANGED <<svcVars, busVars, renderVars, utilVars>>

\* What the render hook of a module other than the coordinator pushes.
HookPushes ==
  {<<>>}
    \cup {<<c>> : c \in {c \in WorldCmds : c.layer = "terrain"}}
    \cup {<<c>> : c \in {c \in UiCmds : c.layer = "debug"}}

RECURSIVE RenderHooks(_, _, _)
\* for (i...) modules[i].render?.(ctx, alpha), on the render queue: the
\* coordinator drains and submits, module i pushes the commands rplan[i]
RenderHooks(st, i, rplan) ==
  IF i > Len(modules) THEN st
  ELSE IF modules[i] = Coordinator
    THEN LET r == render(st.map)
         IN  RenderHooks([st EXCEPT !.map = r.map,
                                    !.log = @ \o r.log,
                                    !.drained = r.drained,
                                    !.pend = [q \in QueuePassIds |->
                                                IF \E k \in 1..Len(passes) : passes[k].id = q
                                                  THEN <<>> ELSE @[q]]],
                         i + 1, rplan)
    ELSE RenderHooks([st EXCEPT !.map = pushMany(@, rplan[i]),
                                !.pushed = @ \o rplan[i],
                                !.pend = Pend(@, rplan[i])],
                     i + 1, rplan)

\* a frame whose render hooks push commands and run the coordinator
FrameRender(t, rplan) ==
  /\ FrameLoop(t)
  /\ IF ~running
       THEN UNCHANGED renderVars
       ELSE LET r == RenderHooks([map |-> byPass, log |-> <<>>, drained |-> <<>>,
                                  pushed |-> <<>>, pend |-> pending], 1, rplan)
            IN  /\ Queued(r.map) <= MaxCmds
                /\ byPass' = r.map
                /\ backendLog' = r.log
                /\ drained' = r.drained
                /\ pushedLog' = r.pushed
                /\ pending' = r.pend
                /\ drainOut' = NoDrain
                /\ UNCHANGED <<cam, camSubs, camCall>>
  /\ UNCHANGED <<svcVars, busVars, utilVars>>

\* engine.add(RenderCoordinator(...))
AddCoordinator ==
  /\ \A i \in Indices : modules[i] # Coordinator
  /\ Add(Coordinator)

\* ------------------------------------------------------------------- stop
\* (mutant) stop() leaves the running flag as it is
StopFlag_Kept(r) == r

\* this.running = false
StopFlag(r) == FALSE

\* stop(), called once the loop runs, and possibly again after that
Stop ==
  /\ pc \in {"running", "stopped"}
  /\ Len(destroyLog) < MaxStops * Len(modules)
  /\ running' = StopFlag(running)
  /\ pc' = "stopped"
  /\ destroyed' = [i \in Indices |->
                     IF HasHook(modules[i], "destroy") THEN destroyed[i] + 1
                     ELSE destroyed[i]]
  /\ destroyLog' = destroyLog \o
        HookCalls("destroy", 1,
                  IF destroyLog = <<>> THEN 1 ELSE destroyLog[Len(destroyLog)].tag + 1)
  /\ UNCHANGED <<modules, last, accumulator, idx, lifecycle, rafPending, rafExtra, now,
                 rafT, startT, rounds, ticked, frameLog, alpha, moduleCtxs>>
  /\ UNCHANGED <<svcVars, busVars, renderVars, utilVars>>

Next ==
  \/ \E m \in ModuleIds : Add(m)
  \/ Tick
  \/ \E i \in 1..MaxModules, hook \in {"init", "start"} : HookResolve(i, hook)
  \/ InitStep
  \/ StartStep
  \/ \E t \in 0..MaxTime : Frame(t)
  \/ Stop

Spec == Init /\ [][Next]_vars

\* The registry and its views: modules are added, init() runs their init hooks
\* and builds the views, and entries are set before and after that.
NextServices ==
  \/ \E m \in ModuleIds : Add(m)
  \/ \E i \in 1..MaxModules : HookResolve(i, "init")
  \/ InitStep
  \/ \E t \in Tokens, v \in StoredValues : SvcSet(t, v)

SpecServices == Init /\ [][NextServices]_vars

\* The event bus alone: handlers subscribe, unsubscribe and emit, none throws.
NextBus ==
  \/ \E ty \in Types, h \in Handlers : On(ty, h)
  \/ \E k \in 1..MaxOffs : Off(k)
  \/ EmitNominal

SpecBus == Init /\ [][NextBus]_vars

\* The event bus with handlers that may throw as well.
NextBusThrow ==
  \/ NextBus
  \/ EmitThrowing

SpecBusThrow == Init /\ [][NextBusThrow]_vars

\* The fan-out of emitted events to the modules registered on the engine: one
\* bus handler, which returns, emits or throws; onEvent hooks return or throw.
NextFanOut ==
  \/ \E m \in ModuleIds : Add(m)
  \/ \E ty \in Types : On(ty, "h1")
  \/ EmitFanOut
  \/ EmitFanOutThrowing

SpecFanOut == Init /\ [][NextFanOut]_vars

\* =========================================================================
\* Scheduler claims
\* =========================================================================

\* C1: after any sequence of frame ticks the number of update rounds executed
\* since start() equals floor(elapsed time since start / fixedStep).
C1_RoundsAreFloorOfElapsed ==
  ticked => rounds = (last - startT) \div FixedStep

\* C2: the alpha handed to render is in [0, 1), whatever timestamp the host
\* delivers, also a first frame timestamp not later than the start() time.
C2_AlphaInUnitInterval ==
  ticked => (0 <= alpha.num /\ alpha.num < alpha.den)

\* C3: in a frame every update round calls the update hooks in registration
\* order, all update rounds precede the first render hook, and every render
\* hook is then called exactly once, in registration order.
C3_FrameOrder ==
  LET n == Len(frameLog)
      upd(p) == frameLog[p].hook = "update"
      ren(p) == frameLog[p].hook = "render"
  IN  /\ \A p, q \in 1..n : (p < q /\ ren(p)) => ren(q)
      /\ \A p, q \in 1..n : (p < q /\ upd(p) /\ upd(q)) =>
            \/ frameLog[p].tag < frameLog[q].tag
            \/ frameLog[p].tag = frameLog[q].tag /\ frameLog[p].m < frameLog[q].m
      /\ \A p \in 1..n : upd(p) =>
            \A i \in Indices : HasHook(modules[i], "update") =>
              \E q \in 1..n : upd(q) /\ frameLog[q].tag = frameLog[p].tag
                               /\ frameLog[q].m = i
      /\ \A p, q \in 1..n : (p < q /\ ren(p) /\ ren(q)) =>
            frameLog[p].m < frameLog[q].m
      /\ ticked => \A i \in Indices : HasHook(modules[i], "render") =>
            \E q \in 1..n : ren(q) /\ frameLog[q].m = i
      /\ \A p \in 1..n : HasHook(modules[frameLog[p].m], frameLog[p].hook)

\* a frame with two update rounds over two modules, then the renders
C3_Witness ==
  /\ Len(modules) = 2
  /\ \E p \in 1..Len(frameLog) : frameLog[p].hook = "update" /\ frameLog[p].tag = 2
  /\ \E p \in 1..Len(frameLog) : frameLog[p].hook = "update" /\ frameLog[p].m = 2

\* C4: no start hook is invoked before every init hook has completed, and no
\* update or render hook is invoked before every start hook has completed.
C4_LifecyclePhases ==
  /\ (\E i \in Indices : lifecycle[i].start # "none") =>
        \A i \in Indices : lifecycle[i].init = "done"
  /\ (ticked \/ frameLog # <<>>) =>
        \A i \in Indices : lifecycle[i].start = "done"

\* the loop has run update hooks of two modules after their asynchronous hooks
C4_Witness ==
  /\ Len(modules) = 2
  /\ ticked
  /\ \E p \in 1..Len(frameLog) : frameLog[p].hook = "update"

\* =========================================================================
\* Service registry claims
\* =========================================================================

\* C5: a view built from whitelist W answers get(t) like the full registry for
\* t in W, at every later time; for t outside W, get is absent, has is false
\* and getOrThrow fails as unauthorized, even when t is registered.
C5_ViewFollowsWhitelist ==
  \A i \in 1..Len(moduleCtxs) : \A t \in Tokens :
    IF t \in ResolveWhitelist(modules[i])
      THEN guard(moduleCtxs[i], t) =
             (IF lastSet[t] = NotSet THEN Absent ELSE lastSet[t])
      ELSE /\ guard(moduleCtxs[i], t) = Absent
           /\ ~hasGuarded(moduleCtxs[i], t)
           /\ guardOrThrow(moduleCtxs[i], t).kind = "error"
           /\ guardOrThrow(moduleCtxs[i], t).name = "Unauthorized service access"

\* a view whose whitelisted token was set after the view was built, while a
\* token outside the whitelist is registered too
C5_Witness ==
  /\ Len(moduleCtxs) >= 1
  /\ ResolveWhitelist(modules[1]) = {"T1"}
  /\ "T1" \in lateSet /\ bag["T1"] = 2
  /\ bag["T2"] = 1

\* C6: on the full registry getOrThrow(t) returns the latest stored value
\* whenever has(t) is true, and fails with a missing-service error naming t
\* exactly when t was never set.
C6_GetOrThrowMatchesHas ==
  \A t \in Tokens :
    /\ has(t) => getOrThrow(t) = [kind |-> "value", v |-> lastSet[t]]
    /\ (getOrThrow(t) = [kind |-> "error", name |-> "Missing service", token |-> t])
         <=> (lastSet[t] = NotSet)

\* =========================================================================
\* Event bus claims
\* =========================================================================

\* the handlers invoked with event number ev, in invocation order
InvokedWith(ev) ==
  LET calls == SelectSeq(busLog, LAMBDA c : c.kind = "handler" /\ c.ev = ev)
  IN  [i \in 1..Len(calls) |-> calls[i].who]

\* the modules whose onEvent hook was invoked with event number ev, in order
NotifiedOf(ev) ==
  LET calls == SelectSeq(busLog, LAMBDA c : c.kind = "onEvent" /\ c.ev = ev)
  IN  [i \in 1..Len(calls) |-> calls[i].at]

\* the modules that have an onEvent hook, in registration order
Listeners ==
  LET RECURSIVE L(_)
      L(i) == IF i > Len(modules) THEN <<>>
              ELSE (IF HasHook(modules[i], "onEvent") THEN <<i>> ELSE <<>>) \o L(i + 1)
  IN  L(1)

Elems(s) == {s[i] : i \in 1..Len(s)}

\* the last on/off of handler h on the emitted type made by a handler while
\* the latest emit was dispatching ("" when there was none)
LastChange(h) ==
  LET ops == SelectSeq(busLog, LAMBDA c : c.kind \in {"on", "off"} /\ c.who = h
                                         /\ c.ty = busEvent)
  IN  IF ops = <<>> THEN "" ELSE ops[Len(ops)].kind

\* C7: dispatch uses the handler set as it was when emit was called: a handler
\* subscribed during the dispatch is not invoked for the event in flight but by
\* the next emit, a handler unsubscribed during the dispatch is still invoked
\* for the event in flight and not by later emits.
C7_DispatchUsesSnapshot ==
  busEvent # "" =>
    /\ InvokedWith(1) = busSnap
    /\ \A h \in Handlers :
          /\ LastChange(h) = "on"  => h \in Elems(handlers[busEvent])
          /\ LastChange(h) = "off" => h \notin Elems(handlers[busEvent])

\* a dispatch in which a handler outside the snapshot was subscribed and a
\* handler of the snapshot was unsubscribed before its turn
C7_Witness ==
  /\ busEvent = "A"
  /\ busSnap = <<"h1">>
  /\ LastChange("h2") = "on"

C7_WitnessUnsub ==
  /\ busEvent = "A"
  /\ busSnap = <<"h1", "h2">>
  /\ LastChange("h2") = "off"
  /\ Len(busLog) >= 2 /\ busLog[2].kind = "off"

\* C8: when emit(e) is left, every handler subscribed to e.type when emit was
\* called has been invoked exactly once with e, whatever the handlers do.
C8_AllSubscribersInvoked ==
  busEvent # "" => InvokedWith(1) = busSnap

\* C9: every emitted event reaches each module's onEvent hook exactly once, in
\* registration order; an exception of one hook is caught and neither reaches
\* the emitter nor keeps later modules from being notified.
C9_FanOutToEveryModule ==
  busEvent # "" => NotifiedOf(1) = Listeners

\* C10: subscribing the same handler twice for the same type registers it
\* once: an emit of that type invokes it exactly once, and one call of either
\* unsubscribe function leaves no subscription of it.
C10_SubscribeTwiceRegistersOnce ==
  /\ [](\A ty \in Types : \A i, j \in 1..Len(handlers[ty]) :
          handlers[ty][i] = handlers[ty][j] => i = j)
  /\ [](busEvent # "" =>
          \A h \in Elems(busSnap) :
            Cardinality({i \in 1..Len(InvokedWith(1)) : InvokedWith(1)[i] = h}) = 1)
  /\ [][\A k \in 1..Len(offs) :
          (busEvent' = "" /\ Len(offs') = Len(offs) /\ offs'[k].called /\ ~offs[k].called)
            => offs[k].handler \notin Elems(handlers'[offs[k].type])]_vars

\* the same handler subscribed twice, one of the two unsubscribe functions
\* called once, and no subscription left
C10_Witness ==
  /\ offs = <<[type |-> "A", handler |-> "h1", called |-> TRUE],
              [type |-> "A", handler |-> "h1", called |-> FALSE]>>
  /\ handlers["A"] = <<>>

\* the same handler subscribed twice and invoked once by the following emit
C10_WitnessEmit ==
  /\ offs = <<[type |-> "A", handler |-> "h1", called |-> FALSE],
              [type |-> "A", handler |-> "h1", called |-> FALSE]>>
  /\ busEvent = "A"
  /\ InvokedWith(1) = <<"h1">>


\* C11: a call of an unsubscribe function after its first call is a no-op: it
\* leaves the subscribed handlers as they are, also when the handler has been
\* subscribed again by a new on() call in between.  (Outside a dispatch, a step
\* that keeps offs and resets busEvent is a repeated call of an unsubscribe
\* function: on() appends to offs, a first call sets its called flag.)
C11_RepeatedUnsubscribeIsNoOp ==
  [][(busEvent' = "" /\ offs' = offs) => handlers' = handlers]_vars


\* =========================================================================
\* Render queue claims
\* =========================================================================

\* The render queue alone: passes are registered, commands pushed one by one
\* or several at a time, buffers cleared and drained.
NextQueue ==
  \/ \E id \in QueuePassIds : RegisterPass(id)
  \/ \E cmd \in Cmds : Push(cmd)
  \/ \E c1 \in Cmds, c2 \in Cmds : PushMany(<<c1, c2>>)
  \/ \E id \in QueuePassIds : ClearPass(id)
  \/ \E id \in QueuePassIds : Drain(id)

SpecQueue == Init /\ [][NextQueue]_vars

\* C12: drain(p) returns exactly the commands pushed with passId p since the
\* previous drain(p) or clearPass(p), in push order, and leaves p's buffer
\* empty (so a repeated drain returns [] and no push is returned by two
\* drains); the buffers of the other passes are unchanged.
C12_DrainReturnsPushedOnce ==
  /\ [](drainOut.passId # "" =>
          /\ drainOut.out = drainOut.expect
          /\ Buf(byPass, drainOut.passId) = <<>>)
  /\ [][drainOut'.passId # "" =>
          \A q \in QueuePassIds \ {drainOut'.passId} :
             Buf(byPass', q) = Buf(byPass, q)]_vars

\* a drain that returned two commands while another pass holds one
C12_Witness ==
  /\ drainOut.passId = "world"
  /\ Len(drainOut.out) = 2
  /\ Buf(byPass, "ui") # <<>>

\* a drain of a pass whose commands had all been drained or cleared before
C12_WitnessRepeated ==
  /\ drainOut.passId = "world"
  /\ drainOut.out = <<>>
  /\ "world" \in DOMAIN byPass


\* =========================================================================
\* Render coordinator claims
\* =========================================================================

\* The coordinator between frames: modules push commands, the camera moves,
\* render() drains, culls, sorts, batches and submits.
NextCoordinator ==
  \/ \E cmd \in Cmds : Push(cmd)
  \/ \E patch \in CameraPatches : CameraSet(patch)
  \/ Render

SpecCoordinator == Init /\ [][NextCoordinator]_vars

\* the backend calls of pass number i of the latest render()
CallsOfPass(i) ==
  LET begins == {k \in 1..Len(backendLog) :
                   backendLog[k].op = "beginPass" /\ backendLog[k].passId = passes[i].id}
  IN  IF begins = {} THEN <<>>
      ELSE LET b == CHOOSE k \in begins : \A j \in begins : k <= j
               e == CHOOSE k \in b..Len(backendLog) :
                      /\ backendLog[k].op = "endPass"
                      /\ \A j \in b..(k - 1) : backendLog[j].op # "endPass"
           IN  SubSeq(backendLog, b, e)

\* the batches submitted in pass number i, in order
Batches(i) ==
  LET calls == SelectSeq(CallsOfPass(i), LAMBDA c : c.op = "submitBatch")
  IN  [k \in 1..Len(calls) |-> calls[k].batch]

RECURSIVE Concat(_)
Concat(ss) == IF ss = <<>> THEN <<>> ELSE Head(ss) \o Concat(Tail(ss))

\* the commands submitted in pass number i, in order
Submitted(i) == Concat(Batches(i))

\* number of occurrences of x in the sequence s
Count(s, x) == Cardinality({k \in 1..Len(s) : s[k] = x})

RenderedPasses == 1..Len(drained)


\* the log is a sequence of groups beginPass, submitBatch..., endPass
RECURSIVE Bracketed(_, _)
Bracketed(log, open) ==
  IF log = <<>> THEN ~open
  ELSE CASE Head(log).op = "beginPass"   -> ~open /\ Bracketed(Tail(log), TRUE)
         [] Head(log).op = "submitBatch" -> open /\ Bracketed(Tail(log), TRUE)
         [] Head(log).op = "endPass"     -> open /\ Bracketed(Tail(log), FALSE)
         [] OTHER                        -> ~open /\ Bracketed(Tail(log), FALSE)

\* the ids of the passes for which beginPass was called, in call order
BegunPasses ==
  LET b == SelectSeq(backendLog, LAMBDA c : c.op = "beginPass")
  IN  [k \in 1..Len(b) |-> b[k].passId]

\* the ids of the configured passes whose drained buffer was not empty
RECURSIVE NonEmptyPasses(_)
NonEmptyPasses(i) ==
  IF i > Len(drained) THEN <<>>
  ELSE (IF drained[i] # <<>> THEN <<passes[i].id>> ELSE <<>>) \o NonEmptyPasses(i + 1)

\* C14: in a frame the backend receives, for each configured pass with a
\* non-empty drained buffer and in pass-list order, one beginPass, then the
\* submitBatch calls, then one endPass; the groups neither nest nor interleave,
\* and a pass whose buffer is empty gets no call at all.
C14_PassBracketing ==
  drained # <<>> =>
    /\ Bracketed(backendLog, FALSE)
    /\ BegunPasses = NonEmptyPasses(1)
    /\ \A i \in RenderedPasses :
          drained[i] # <<>> =>
            Len(CallsOfPass(i)) = Len(Batches(i)) + 2

\* a frame with commands for the ui pass and two batches for the world pass,
\* the other two passes being empty
C14_Witness ==
  /\ Len(drained) = 4
  /\ BegunPasses = <<"ui", "world">>
  /\ Len(Batches(3)) = 2


\* the sort key of command c in a pass with the given layer order: layer rank
\* (0 for a layer the order does not name), z ?? 0, material, kind, id ?? ""
RankOf(s) == CHOOSE k \in 1..Len(StrOrder) : StrOrder[k] = s

SortKey(c, layerOrder) ==
  << IF \E k \in 1..Len(layerOrder) : layerOrder[k] = c.layer
       THEN (CHOOSE k \in 1..Len(layerOrder) : layerOrder[k] = c.layer) - 1
       ELSE 0,
     IF "z" \in DOMAIN c THEN c.z ELSE 0,
     RankOf(c.renderMaterial),
     RankOf(c.kind),
     IF "id" \in DOMAIN c THEN RankOf(c.id) ELSE RankOf("") >>

RECURSIVE LexLeq(_, _)
LexLeq(a, b) ==
  \/ a = <<>>
  \/ Head(a) < Head(b)
  \/ Head(a) = Head(b) /\ LexLeq(Tail(a), Tail(b))

\* the commands of pass number i that survived culling
Survivors(i) ==
  IF passes[i].space = "world" THEN cullAgainstCamera(cam, drained[i]) ELSE drained[i]

\* C15: within one pass the concatenation of the submitted batches is ordered
\* by the key (layerOrder(layer), z ?? 0, material, kind, id ?? ""), and it is
\* a permutation of the commands that survived culling.
C15_SubmittedSortedByKey ==
  \A i \in RenderedPasses :
    /\ \A k \in 1..(Len(Submitted(i)) - 1) :
          LexLeq(SortKey(Submitted(i)[k], passes[i].layerOrder),
                 SortKey(Submitted(i)[k + 1], passes[i].layerOrder))
    /\ Len(Submitted(i)) = Len(Survivors(i))
    /\ \A c \in Cmds : Count(Submitted(i), c) = Count(Survivors(i), c)

\* a world pass whose three commands were pushed in descending key order: an
\* unknown layer with z = -1, a known layer without z, a layer of higher rank
C15_Witness ==
  /\ Len(drained) = 4
  /\ Len(drained[3]) = 3
  /\ drained[3][1].layer = "actors"
  /\ drained[3][2].layer = "terrain"
  /\ drained[3][3].layer = "mystery"
  /\ Submitted(3)[1].layer = "mystery"

\* C16: every submitted batch is non-empty, its commands share one kind and
\* one material, and two consecutive batches of a pass differ in kind or in
\* material.
C16_BatchesAreMaximalRuns ==
  \A i \in RenderedPasses :
    /\ \A k \in 1..Len(Batches(i)) :
          /\ Batches(i)[k] # <<>>
          /\ \A x, y \in 1..Len(Batches(i)[k]) :
                /\ Batches(i)[k][x].kind = Batches(i)[k][y].kind
                /\ Batches(i)[k][x].renderMaterial = Batches(i)[k][y].renderMaterial
    /\ \A k \in 1..(Len(Batches(i)) - 1) :
          \/ Batches(i)[k][1].kind # Batches(i)[k + 1][1].kind
          \/ Batches(i)[k][1].renderMaterial # Batches(i)[k + 1][1].renderMaterial

\* a world pass submitted as a batch of two commands followed by a batch of
\* the same kind and another material
C16_Witness ==
  /\ Len(drained) = 4
  /\ Len(Batches(3)) = 2
  /\ Len(Batches(3)[1]) = 2
  /\ Batches(3)[1][1].kind = Batches(3)[2][1].kind

\* the rectangle of the world the camera shows on the 800 x 600 canvas
VisibleRect(c) ==
  LET w == 800 \div (c.ppm * c.zoom)
      h == 600 \div (c.ppm * c.zoom)
  IN  [x |-> c.position.x - w \div 2, y |-> c.position.y - h \div 2, w |-> w, h |-> h]

Intersects(a, b) ==
  /\ a.x + a.w >= b.x /\ a.x <= b.x + b.w
  /\ a.y + a.h >= b.y /\ a.y <= b.y + b.h

\* C17: in a world-space pass a command whose bounding box does not intersect
\* the visibility rectangle of the camera snapshot is never submitted and a
\* command without a bounding box always is; in a ui-space pass every command
\* is submitted.
C17_WorldPassCulled ==
  \A i \in RenderedPasses :
    IF passes[i].space = "world"
      THEN /\ \A k \in 1..Len(Submitted(i)) :
                 "aabb" \in DOMAIN Submitted(i)[k] =>
                    Intersects(Submitted(i)[k].aabb, VisibleRect(cam))
           /\ \A k \in 1..Len(drained[i]) :
                 "aabb" \notin DOMAIN drained[i][k] =>
                    Count(Submitted(i), drained[i][k]) = Count(drained[i], drained[i][k])
      ELSE \A c \in Cmds : Count(Submitted(i), c) = Count(drained[i], c)

\* the sequences that hold the elements of s in another order
Reorderings(s) ==
  {[k \in 1..Len(s) |-> s[f[k]]] :
     f \in {g \in [1..Len(s) -> 1..Len(s)] : \A x, y \in 1..Len(s) : g[x] = g[y] => x = y}}

\* C18: two runs in which the same set of commands is pushed for a frame, with
\* the same passes and camera, make the same sequence of backend calls: the
\* calls of a pass do not depend on the order the commands were pushed in.
C18_SameCommandsSameCalls ==
  \A i \in RenderedPasses :
    \A q \in Reorderings(drained[i]) :
      PassCalls(passes[i], q, cam) = PassCalls(passes[i], drained[i], cam)


\* The engine with the RenderCoordinator among its modules: the render hooks
\* of the other modules push commands, the coordinator's drains and submits.
NextRender ==
  \/ Add("a")
  \/ AddCoordinator
  \/ Tick
  \/ \E i \in 1..MaxModules, hook \in {"init", "start"} : HookResolve(i, hook)
  \/ InitStep
  \/ StartStep
  \/ \E t \in 0..MaxTime : \E rplan \in [Indices -> HookPushes] : FrameRender(t, rplan)
  \/ Stop

SpecRender == Init /\ [][NextRender]_vars

\* the commands submitted to the backend by the latest frame
AllSubmitted ==
  LET calls == SelectSeq(backendLog, LAMBDA c : c.op = "submitBatch")
  IN  Concat([k \in 1..Len(calls) |-> calls[k].batch])

\* C13: in every frame the coordinator drains only after every module's render
\* hook has returned: each command pushed during the render phase of a frame is
\* submitted to the backend in that frame, whatever the registration order.
C13_PushedSubmittedSameFrame ==
  (\E i \in Indices : modules[i] = Coordinator) =>
     \A c \in Cmds : Count(pushedLog, c) <= Count(AllSubmitted, c)

\* =========================================================================
\* Shutdown claims
\* =========================================================================

\* C19: once stop() has been called while the loop was running, the frame
\* callback that was already scheduled does nothing: no update or render hook
\* runs, no further frame is scheduled; and stop() has called every module's
\* destroy() in registration order.
C19_StopSilencesLoop ==
  /\ [](pc = "stopped" =>
          /\ ~running
          /\ \A i \in Indices : HasHook(modules[i], "destroy") =>
                \E p \in 1..Len(destroyLog) : destroyLog[p].m = i /\ destroyLog[p].tag = 1
          /\ \A p, q \in 1..Len(destroyLog) :
                (p < q /\ destroyLog[p].tag = destroyLog[q].tag) =>
                   destroyLog[p].m < destroyLog[q].m)
  /\ [][pc = "stopped" =>
          /\ UNCHANGED <<frameLog, rounds, last, accumulator, alpha, ticked>>
          /\ rafPending' => rafPending]_vars

\* stop() after a frame with update rounds of two modules; the scheduled frame
\* callback has run since and has left no frame scheduled
C19_Witness ==
  /\ pc = "stopped"
  /\ Len(modules) = 2
  /\ rounds >= 1
  /\ ~rafPending
  /\ now > last

\* C20: once stop() has been called, whatever the number of stop() calls, the
\* destroy() hook of every module has been invoked exactly once.
C20_DestroyExactlyOnce ==
  pc = "stopped" =>
    \A i \in Indices : HasHook(modules[i], "destroy") => destroyed[i] = 1


\* =========================================================================
\* Faults and stop() inside a frame
\* =========================================================================

\* The engine loop with a hook that calls stop() while a frame is executing.
NextStopInHook ==
  \/ \E m \in ModuleIds : Add(m)
  \/ Tick
  \/ \E i \in 1..MaxModules, hook \in {"init", "start"} : HookResolve(i, hook)
  \/ InitStep
  \/ StartStep
  \/ \E t \in 0..MaxTime : Frame(t)
  \/ \E t \in 0..MaxTime, k \in 1..MaxCalls : FrameStopping(t, k)

SpecStopInHook == Init /\ [][NextStopInHook]_vars

\* C21: stop() called from inside a hook takes effect only at the next loop
\* boundary: no module gets an update or render call after its destroy(); the
\* remaining hooks of the frame run before any destroy().
C21_HooksBeforeDestroy ==
  \A p, q \in 1..Len(frameLog) :
    (p < q /\ frameLog[p].hook = "destroy"
           /\ frameLog[q].hook \in {"update", "render"})
      => frameLog[p].m # frameLog[q].m

\* The engine loop with update and render hooks that throw.
NextThrow ==
  \/ \E m \in ModuleIds : Add(m)
  \/ Tick
  \/ \E i \in 1..MaxModules, hook \in {"init", "start"} : HookResolve(i, hook)
  \/ InitStep
  \/ StartStep
  \/ \E t \in 0..MaxTime : Frame(t)
  \/ \E t \in 0..MaxTime, k \in 1..MaxCalls : FrameThrowing(t, k)

SpecThrow == Init /\ [][NextThrow]_vars

\* a hook of the latest frame threw
Threw == \E p \in 1..Len(frameLog) : frameLog[p].hook = "throw"

\* C22: when an update or render hook throws, the scheduler does not catch the
\* exception: it leaves the frame callback, no later hook of the frame is
\* invoked, and no further frame is scheduled.
C22_ThrowStopsLoop ==
  /\ [](Threw => /\ frameLog[Len(frameLog)].hook = "throw"
                 /\ \A p \in 1..(Len(frameLog) - 1) : frameLog[p].hook # "throw"
                 /\ ~rafPending)
  /\ [][Threw => UNCHANGED <<frameLog, rounds, rafPending>>]_vars

\* the update hook of the first of two modules threw in the second round
C22_Witness ==
  /\ Len(modules) = 2
  /\ Len(frameLog) >= 4
  /\ frameLog[Len(frameLog)] = [hook |-> "throw", m |-> 1, tag |-> 2]


\* =========================================================================
\* Initialisation order
\* =========================================================================

\* The tokens the init hook of a module registers (as Camera2D and
\* RenderCoordinator register theirs).
Provides(m) ==
  CASE m = "a" -> {"T1"}
    [] m = "b" -> {"T2"}
    [] OTHER -> {}

\* The running init hook of module i registers one of its services.
InitRegister(i, t) ==
  /\ i \in Indices
  /\ lifecycle[i].init = "pending"
  /\ t \in Provides(modules[i])
  /\ SvcSet(t, 1)

\* The init hook of module i settles, having registered its services.
InitSettle(i) ==
  /\ i \in Indices
  /\ \A t \in Provides(modules[i]) : has(t)
  /\ HookResolve(i, "init")

\* init() over modules whose asynchronous init hooks register services.
NextInitOrder ==
  \/ \E m \in ModuleIds : Add(m)
  \/ InitStep
  \/ \E i \in 1..MaxModules, t \in Tokens : InitRegister(i, t)
  \/ \E i \in 1..MaxModules : InitSettle(i)
  \/ StartStep
  \/ \E i \in 1..MaxModules : HookResolve(i, "start")

SpecInitOrder == Init /\ [][NextInitOrder]_vars

\* C23: a module's init hook is not invoked until the init hooks of all modules
\* registered before it have completed, so every service an earlier module
\* registers in its init is in the registry when a later init hook runs.
C23_InitInRegistrationOrder ==
  \A j \in Indices : lifecycle[j].init # "none" =>
    \A i \in 1..(j - 1) :
      /\ lifecycle[i].init = "done"
      /\ \A t \in Provides(modules[i]) : has(t)

\* the init hook of b is running after the asynchronous init hook of a has
\* registered its service
C23_Witness ==
  /\ modules = <<"a", "b">>
  /\ lifecycle[2].init = "pending"
  /\ has("T1") /\ ~has("T2")


\* =========================================================================
\* Restricted views
\* =========================================================================

\* C24: getOrThrow on a restricted view fails as unauthorized exactly when the
\* token is registered but not in the view's whitelist, and as a missing service
\* exactly when the token was never registered, whitelisted or not.
C24_ViewErrorKinds ==
  \A i \in 1..Len(moduleCtxs) : \A t \in Tokens :
    LET r == guardOrThrow(moduleCtxs[i], t)
        fails(name) == r.kind = "error" /\ r.name = name
    IN  /\ fails("Unauthorized service access") <=>
              (lastSet[t] # NotSet /\ t \notin ResolveWhitelist(modules[i]))
        /\ fails("Missing service") <=> (lastSet[t] = NotSet)


\* init() over modules that register services, then hooks that use their views.
NextView ==
  \/ NextInitOrder
  \/ \E i \in 1..MaxModules, op \in ViewOps, t \in Tokens, v \in StoredValues :
        ViewCall(i, op, t, v)

SpecView == Init /\ [][NextView]_vars

NextUnregistered ==
  \/ \E k \in 1..Len(passes) : RegisterPass(passes[k].id)
  \/ \E cmd \in Cmds : Push(cmd)
  \/ Render

SpecUnregistered == Init /\ [][NextUnregistered]_vars

\* the pass ids the coordinator is not configured with, never registered
NeverRegistered == QueuePassIds \ {passes[k].id : k \in 1..Len(passes)}

\* C26: a command pushed with a passId that was never registered is dropped:
\* no queue buffer retains it.
C26_UnregisteredPushDropped ==
  \A q \in NeverRegistered : Buf(byPass, q) = <<>>


\* =========================================================================
\* Ports of the render queue
\* =========================================================================

\* the methods of the object createRenderQueueService() returns
RenderQueueService == {"registerPass", "push", "pushMany", "clearPass", "drain"}

\* RenderCoordinator.init: ctx.services.set(RENDER_QUEUE_WRITE, rq) and
\* ctx.services.set(RENDER_QUEUE_READ, rq), the same object under both tokens
QueuePort(token) ==
  CASE token = "RENDER_QUEUE_WRITE" -> RenderQueueService
    [] token = "RENDER_QUEUE_READ" -> RenderQueueService

\* A module whose view whitelists RENDER_QUEUE_WRITE and not RENDER_QUEUE_READ
\* calls a method of the object its view hands out for RENDER_QUEUE_WRITE.
WritePortCall(op, passId) ==
  /\ op \in QueuePort("RENDER_QUEUE_WRITE")
  /\ CASE op = "registerPass" -> RegisterPass(passId)
       [] op = "clearPass" -> ClearPass(passId)
       [] op = "drain" -> Drain(passId)
       [] OTHER -> FALSE

\* Modules use the write port, the coordinator renders.
NextPorts ==
  \/ \E cmd \in Cmds : Push(cmd)
  \/ \E op \in {"registerPass", "clearPass", "drain"}, id \in QueuePassIds :
        WritePortCall(op, id)
  \/ Render

SpecPorts == Init /\ [][NextPorts]_vars

\* C27: queued commands are consumed only by the coordinator: no call a module
\* makes through RENDER_QUEUE_WRITE removes and returns the contents of a buffer.
C27_OnlyCoordinatorDrains ==
  drainOut.out = <<>>


\* =========================================================================
\* Camera claims
\* =========================================================================

\* the methods of the object createCamera2DService() returns
CameraService == {"get", "replace", "set", "onChange", "follow"}

\* Camera2D.init: services.set(CAMERA_2D, svc), set(CAMERA_2D_READ, svc) and
\* set(CAMERA_2D_WRITE, svc), the same object under the three tokens
CameraPort(token) ==
  CASE token = "CAMERA_2D" -> CameraService
    [] token = "CAMERA_2D_READ" -> CameraService
    [] token = "CAMERA_2D_WRITE" -> CameraService

ReplaceValues == {InitialCamera, [InitialCamera EXCEPT !.zoom = 2]}

FollowTargets == {[x |-> 0, y |-> 0], [x |-> 4, y |-> 0]}

\* follow options: lerp 1 (the camera jumps to the target or to the edge of the
\* deadzone), with or without a deadzone
FollowOpts == {[lerp |-> 1], [lerp |-> 1, deadzoneHalf |-> [x |-> 1, y |-> 1]]}

\* A module whose view whitelists CAMERA_2D_READ, and neither CAMERA_2D_WRITE
\* nor CAMERA_2D, calls a method of the object its view hands out for it.
ReadPortCall(op) ==
  /\ op \in CameraPort("CAMERA_2D_READ")
  /\ CASE op = "set" -> \E patch \in CameraPatches : CameraSet(patch)
       [] op = "replace" -> \E next \in ReplaceValues : CameraReplace(next)
       [] op = "follow" -> \E target \in FollowTargets, opts \in FollowOpts :
                             CameraFollow(target, opts)
       [] op = "onChange" -> \E fn \in CamFns : CameraOnChange(fn)
       [] OTHER -> FALSE

\* get: () => cam hands out the camera object itself; the module writes a field
\* of the object it got.
SnapshotWrite(patch) ==
  /\ "get" \in CameraPort("CAMERA_2D_READ")
  /\ cam' = Spread(cam, patch)
  /\ camCall' = NoCall
  /\ backendLog' = <<>>
  /\ drained' = <<>>
  /\ UNCHANGED <<byPass, pending, drainOut, pushedLog, camSubs>>
  /\ UNCHANGED <<engineVars, svcVars, busVars, utilVars>>

\* Only modules holding CAMERA_2D_READ alone act on the camera.
NextCameraRead ==
  \/ \E op \in {"set", "replace", "follow", "onChange"} : ReadPortCall(op)
  \/ \E patch \in CameraPatches : SnapshotWrite(patch)

SpecCameraRead == Init /\ [][NextCameraRead]_vars

\* C28: a module whose view whitelists CAMERA_2D_READ but neither
\* CAMERA_2D_WRITE nor CAMERA_2D has no operation that changes the camera's
\* position, rotation, zoom or pixels-per-meter.
C28_ReadHolderCannotMutate ==
  cam = InitialCamera

\* The camera service: subscribers come and go, set, replace and follow are
\* called with patches and targets that change the camera or leave it as it is.
NextCamera ==
  \/ \E fn \in CamFns : CameraOnChange(fn)
  \/ \E fn \in CamFns : CameraUnsubscribe(fn)
  \/ \E patch \in CameraPatches : CameraSet(patch)
  \/ \E next \in ReplaceValues : CameraReplace(next)
  \/ \E target \in FollowTargets, opts \in FollowOpts : CameraFollow(target, opts)

SpecCamera == Init /\ [][NextCamera]_vars

\* C29: a set, replace or follow call that changes the camera notifies every
\* current subscriber exactly once with the new value; a call that leaves every
\* camera field unchanged does not notify.
C29_NotifyExactlyOnChange ==
  camCall.op # "none" =>
    IF camCall.changed
      THEN /\ Len(camCall.notified) = Len(camSubs)
           /\ \A k \in 1..Len(camSubs) :
                \E n \in 1..Len(camCall.notified) :
                  camCall.notified[n] = [fn |-> camSubs[k], value |-> cam]
      ELSE camCall.notified = <<>>


\* =========================================================================
\* Pass order
\* =========================================================================

\* C30: with the default passes, in every frame the commands of the ui pass are
\* submitted after those of the world and background passes, and the commands
\* of the debug pass last.
C30_DefaultPassOrder ==
  LET b == BegunPasses
  IN  /\ \A k1, k2 \in 1..Len(b) :
           (b[k1] = "ui" /\ b[k2] \in {"world", "background"}) => k2 < k1
      /\ \A k \in 1..Len(b) : b[k] = "debug" => k = Len(b)


\* =========================================================================
\* Lifecycle claims
\* =========================================================================

\* The engine from add() to stop(), with events emitted on the bus meanwhile.
NextLife ==
  \/ Next
  \/ EmitToModules

SpecLife == Init /\ [][NextLife]_vars

\* the calls of hook in log to module number i, as the tags of the calls
CallsTo(log, hook, i) ==
  LET c == SelectSeq(log, LAMBDA e : e.hook = hook /\ e.m = i)
  IN  [k \in 1..Len(c) |-> c[k].tag]

\* in log every call of hook to module i is followed by one to module j before
\* the next call to i
InTurn(log, hook, i, j) ==
  LET c == SelectSeq(log, LAMBDA e : e.hook = hook /\ e.m \in {i, j})
  IN  /\ Len(c) % 2 = 0
      /\ \A k \in 1..Len(c) : c[k].m = (IF k % 2 = 1 THEN i ELSE j)

\* C31: two modules added with the same id are both kept, and both instances
\* receive the same init, start, update, render, onEvent and destroy calls,
\* the earlier instance first.
C31_DuplicateIdsBothServed ==
  \A i, j \in Indices : (i < j /\ modules[i] = modules[j]) =>
    /\ \A hook \in {"init", "start"} :
          /\ lifecycle[j][hook] # "none" => lifecycle[i][hook] = "done"
          /\ lifecycle[i][hook] = "done" /\ pc \in {"running", "stopped"} =>
                lifecycle[j][hook] = "done"
    /\ \A hook \in {"update", "render"} :
          /\ CallsTo(frameLog, hook, i) = CallsTo(frameLog, hook, j)
          /\ InTurn(frameLog, hook, i, j)
    /\ busEvent # "" =>
          /\ Count(NotifiedOf(1), i) = Count(NotifiedOf(1), j)
          /\ HasHook(modules[i], "onEvent") => Count(NotifiedOf(1), i) = 1
          /\ \A p, q \in 1..Len(NotifiedOf(1)) :
                (NotifiedOf(1)[p] = i /\ NotifiedOf(1)[q] = j) => p < q
    /\ destroyed[i] = destroyed[j]
    /\ CallsTo(destroyLog, "destroy", i) = CallsTo(destroyLog, "destroy", j)
    /\ InTurn(destroyLog, "destroy", i, j)

\* two instances of module a have been through init, start, two update rounds
\* in one frame, an event and stop()
C31_Witness ==
  /\ modules = <<"a", "a">>
  /\ pc = "stopped"
  /\ CallsTo(frameLog, "update", 2) = <<1, 2>>
  /\ NotifiedOf(1) = <<1, 2>>
  /\ destroyed = <<1, 1>>

\* C33: after stop() has returned, an event emitted on the bus is delivered to
\* no module's onEvent hook.
C33_NoEventAfterStop ==
  [][(pc = "stopped" /\ busLog' # busLog) =>
       \A k \in 1..Len(busLog') : busLog'[k].kind # "onEvent"]_vars


\* stop(), called while start() is awaiting the start hook of a module
StopDuringStart ==
  /\ pc = "start"
  /\ destroyLog = <<>>
  /\ running' = StopFlag(running)
  /\ destroyed' = [i \in Indices |->
                     IF HasHook(modules[i], "destroy") THEN destroyed[i] + 1
                     ELSE destroyed[i]]
  /\ destroyLog' = HookCalls("destroy", 1, 1)
  /\ UNCHANGED <<modules, last, accumulator, pc, idx, lifecycle, rafPending, rafExtra, now,
                 rafT, startT, rounds, ticked, frameLog, alpha, moduleCtxs>>
  /\ UNCHANGED <<svcVars, busVars, renderVars, utilVars>>

\* The engine when stop() comes while start() is still awaiting a start hook.
NextStopDuringStart ==
  \/ \E m \in ModuleIds : Add(m)
  \/ Tick
  \/ \E i \in 1..MaxModules, hook \in {"init", "start"} : HookResolve(i, hook)
  \/ InitStep
  \/ StartStep
  \/ StopDuringStart
  \/ \E t \in 0..MaxTime : Frame(t)

SpecStopDuringStart == Init /\ [][NextStopDuringStart]_vars

\* C32: if stop() is called while start() is awaiting a start hook, then after
\* start() has finished the running flag is false, no frame is scheduled and no
\* update or render hook has run.
C32_StopDuringStartPreventsLoop ==
  (destroyLog # <<>> /\ pc = "running") =>
    (~running /\ ~rafPending /\ frameLog = <<>>)


\* =========================================================================
\* Termination of a frame
\* =========================================================================

\* What the update hooks of one round add to ctx.services.time.accumulator, the
\* time service being the object the loop reads: nothing, or up to a step and more.
HookWrites == 0..(FixedStep + 1)

\* The frame callback up to the test of its while loop.
FrameBegin(t) ==
  /\ pc = "running"
  /\ rafPending /\ running
  /\ t \in rafT..now
  /\ t >= now - MaxLag
  /\ rafT' = t
  /\ last' = t
  /\ accumulator' = accumulator + (t - last)
  /\ rafPending' = FALSE
  /\ frameLog' = <<>>
  /\ pc' = "frame"
  /\ UNCHANGED <<rafExtra, modules, running, idx, lifecycle, now, startT, rounds, ticked,
                 alpha, destroyed, destroyLog, moduleCtxs>>
  /\ UNCHANGED <<svcVars, busVars, renderVars, utilVars>>

\* One pass of the while loop: the update hooks, which add w to the
\* accumulator, then time.accumulator -= time.fixedStep. The rounds are counted
\* up to MaxTime, frameLog keeps the calls of the latest round, and the hooks
\* leave the accumulator within MaxTime.
UpdateRound(w) ==
  /\ pc = "frame"
  /\ accumulator >= FixedStep
  /\ accumulator + w - FixedStep <= MaxTime
  /\ accumulator' = accumulator + w - FixedStep
  /\ rounds' = IF rounds < MaxTime THEN rounds + 1 ELSE rounds
  /\ frameLog' = HookCalls("update", 1, rounds')
  /\ UNCHANGED <<modules, running, last, pc, idx, lifecycle, rafPending, rafExtra, now,
                 rafT, startT, ticked, alpha, destroyed, destroyLog, moduleCtxs>>
  /\ UNCHANGED <<svcVars, busVars, renderVars, utilVars>>

\* The loop is left: the render hooks, then requestAnimationFrame(this.frame).
RenderPhase ==
  /\ pc = "frame"
  /\ accumulator < FixedStep
  /\ alpha' = [num |-> accumulator, den |-> FixedStep]
  /\ frameLog' = HookCalls("render", 1, 0)
  /\ ticked' = TRUE
  /\ rafPending' = TRUE
  /\ pc' = "running"
  /\ UNCHANGED <<rafExtra, modules, running, last, accumulator, idx, lifecycle, now, rafT,
                 startT, rounds, destroyed, destroyLog, moduleCtxs>>
  /\ UNCHANGED <<svcVars, busVars, renderVars, utilVars>>

NextCatchUp ==
  \/ \E m \in ModuleIds : Add(m)
  \/ Tick
  \/ \E i \in 1..MaxModules, hook \in {"init", "start"} : HookResolve(i, hook)
  \/ InitStep
  \/ StartStep
  \/ \E t \in 0..MaxTime : FrameBegin(t)
  \/ \E w \in HookWrites : UpdateRound(w)
  \/ RenderPhase

\* The frame callback runs to its end once called: it is synchronous code.
SpecCatchUp ==
  /\ Init /\ [][NextCatchUp]_vars
  /\ WF_vars(\E w \in HookWrites : UpdateRound(w))
  /\ WF_vars(RenderPhase)

\* C34: every frame tick terminates: the catch-up loop runs a finite number of
\* rounds and then reaches the render phase, whatever the hooks write to the
\* time service.
C34_FrameTerminates ==
  (pc = "frame") ~> (pc = "running")


\* =========================================================================
\* Repeated start()
\* =========================================================================

\* start() called again, on a running engine or after stop(); the start hooks
\* return at once.
StartAgain ==
  /\ pc \in {"running", "stopped"}
  /\ rafExtra < MaxStops
  /\ running' = TRUE
  /\ last' = now
  /\ startT' = now
  /\ rounds' = 0
  /\ ticked' = FALSE
  /\ pc' = "running"
  /\ IF rafPending
       THEN rafExtra' = rafExtra + 1 /\ UNCHANGED rafPending
       ELSE rafPending' = TRUE /\ UNCHANGED rafExtra
  /\ UNCHANGED <<modules, accumulator, idx, lifecycle, now, rafT, frameLog, alpha,
                 destroyed, destroyLog, moduleCtxs>>
  /\ UNCHANGED <<svcVars, busVars, renderVars, utilVars>>

\* One of the further callbacks runs, in the host frame tick of timestamp rafT.
FrameExtra ==
  /\ rafExtra > 0
  /\ IF ~running
       THEN /\ rafExtra' = rafExtra - 1
            /\ UNCHANGED <<last, accumulator, rounds, ticked, frameLog, alpha>>
       ELSE LET r == CatchUp(accumulator + (rafT - last), 0)
            IN  /\ last' = rafT
                /\ accumulator' = r.acc
                /\ rounds' = rounds + r.n
                /\ ticked' = TRUE
                /\ alpha' = [num |-> r.acc, den |-> FixedStep]
                /\ frameLog' = r.log \o HookCalls("render", 1, 0)
                /\ UNCHANGED rafExtra
  /\ UNCHANGED <<modules, running, pc, idx, lifecycle, rafPending, now, rafT,
                 startT, destroyed, destroyLog, moduleCtxs>>
  /\ UNCHANGED <<svcVars, busVars, renderVars, utilVars>>

\* The engine with start() and stop() called in any number and order once the
\* loop has been started.
NextRestart ==
  \/ Next
  \/ StartAgain
  \/ FrameExtra

SpecRestart == Init /\ [][NextRestart]_vars

\* C35: at most one frame callback is pending at any time, for any sequence of
\* start() and stop() calls.
C35_OneCallbackPending ==
  rafExtra = 0


\* =========================================================================
\* Contexts of the hooks
\* =========================================================================

\* engine.add(m) after init() has built the contexts
AddLate(m) ==
  /\ pc = "inited"
  /\ Len(modules) < MaxModules
  /\ modules' = Append(modules, m)
  /\ lifecycle' = Append(lifecycle, [init |-> "none", start |-> "none"])
  /\ destroyed' = Append(destroyed, 0)
  /\ UNCHANGED <<running, last, accumulator, pc, idx, rafPending, rafExtra, now,
                 rafT, startT, rounds, ticked, frameLog, alpha, destroyLog,
                 moduleCtxs>>
  /\ UNCHANGED <<svcVars, busVars, renderVars, utilVars>>

\* the caller goes on to start() without having called init()
SkipInit ==
  /\ pc = "setup"
  /\ pc' = "inited"
  /\ UNCHANGED <<modules, running, last, accumulator, idx, lifecycle, rafPending,
                 rafExtra, now, rafT, startT, rounds, ticked, frameLog, alpha,
                 destroyed, destroyLog, moduleCtxs>>
  /\ UNCHANGED <<svcVars, busVars, renderVars, utilVars>>

\* add(), init() and start() called in any order.
NextAnyOrder ==
  \/ \E m \in ModuleIds : Add(m)
  \/ \E m \in ModuleIds : AddLate(m)
  \/ SkipInit
  \/ Tick
  \/ \E i \in 1..MaxModules, hook \in {"init", "start"} : HookResolve(i, hook)
  \/ InitStep
  \/ StartStep
  \/ \E t \in 0..MaxTime : Frame(t)

SpecAnyOrder == Init /\ [][NextAnyOrder]_vars

\* module number i has had a start, update or render hook invoked, with
\* this.moduleCtxs[i] for context
HookInvoked(i) ==
  \/ lifecycle[i].start # "none"
  \/ \E k \in 1..Len(frameLog) : frameLog[k].m = i

\* C36: every start, update and render hook invocation receives a defined
\* context whose services is the view computed from resolveWhitelist for that
\* module, for any order of add(), init() and start() calls.
C36_HooksGetTheirView ==
  \A i \in Indices : HookInvoked(i) =>
    /\ i \in 1..Len(moduleCtxs)
    /\ moduleCtxs[i] = view(ResolveWhitelist(modules[i]))


\* =========================================================================
\* Culled passes
\* =========================================================================

\* a patch that gives the camera the viewAABB field cullAgainstCamera reads:
\* the visible world rectangle, 16 x 12 around the origin
ViewPatches == {[viewAABB |-> [x |-> -8, y |-> -6, w |-> 16, h |-> 12]]}

\* The coordinator with a camera that may carry its visible rectangle.
NextCull ==
  \/ \E cmd \in Cmds : Push(cmd)
  \/ \E patch \in CameraPatches \cup ViewPatches : CameraSet(patch)
  \/ Render

SpecCull == Init /\ [][NextCull]_vars

\* C37: every beginPass/endPass pair encloses at least one submitBatch call: a
\* world pass in which every drained command is culled produces no pass calls.
C37_NoEmptyPass ==
  \A k \in 1..Len(backendLog) : backendLog[k].op = "beginPass" =>
    (k < Len(backendLog) /\ backendLog[k + 1].op = "submitBatch")


\* =========================================================================
\* Order of events
\* =========================================================================

\* C38: the onEvent hooks observe events in the order in which emit was called
\* (events are numbered in that order), also when an event is emitted by a bus
\* handler while another is being dispatched.
C38_EventsInEmitOrder ==
  \A p, q \in 1..Len(busLog) :
    (/\ p < q
     /\ busLog[p].kind = "onEvent" /\ busLog[q].kind = "onEvent"
     /\ busLog[p].at = busLog[q].at) => busLog[p].ev <= busLog[q].ev


\* ------------------------------------------------- debug overlay on the bus
animVars == <<clip, animTime, animIndex, animDir, finished, plays>>

overlayVars == <<panels, activePanel, overlayVisible, overlaySubs, overlayPc>>

\* DebugOverlayModule.init(ctx): three bus.on calls, the first result kept
OverlayInit ==
  /\ overlayPc = "created"
  /\ overlaySubs' = OverlayEvents
  /\ overlayPc' = "inited"
  /\ UNCHANGED <<panels, activePanel, overlayVisible>>
  /\ UNCHANGED <<engineVars, svcVars, busVars, renderVars, animVars>>

\* DebugOverlayModule.destroy(): offKeydown?.(); panels.clear(); activePanel = undefined
OverlayDestroy ==
  /\ overlayPc = "inited"
  /\ overlaySubs' = overlaySubs \ {"input/keydown"}
  /\ panels' = <<>>
  /\ activePanel' = NoPanel
  /\ overlayPc' = "destroyed"
  /\ UNCHANGED overlayVisible
  /\ UNCHANGED <<engineVars, svcVars, busVars, renderVars, animVars>>

\* bus.emit({type: 'input/keydown', key}): the handler of init, when subscribed
EmitKeydown(key) ==
  /\ IF "input/keydown" \in overlaySubs
       THEN IF key = hotkey
              THEN overlayVisible' = ~overlayVisible /\ UNCHANGED activePanel
            ELSE IF ~overlayVisible
              THEN UNCHANGED <<overlayVisible, activePanel>>
            ELSE LET st == [panels |-> panels, activePanel |-> activePanel]
                 IN  /\ activePanel' =
                          IF key = nextKey THEN setActiveByIndex(st, activeIndex(st) + 1)
                          ELSE IF key = prevKey THEN setActiveByIndex(st, activeIndex(st) - 1)
                          ELSE activePanel
                     /\ UNCHANGED overlayVisible
       ELSE UNCHANGED <<overlayVisible, activePanel>>
  /\ UNCHANGED <<panels, overlaySubs, overlayPc>>
  /\ UNCHANGED <<engineVars, svcVars, busVars, renderVars, animVars>>

\* bus.emit({type: 'debug/panel/register', panel: {id, ...}})
EmitRegister(id) ==
  /\ LET r == registerPanel([panels |-> panels, activePanel |-> activePanel], id)
     IN  IF "debug/panel/register" \in overlaySubs
           THEN panels' = r.panels /\ activePanel' = r.activePanel
           ELSE UNCHANGED <<panels, activePanel>>
  /\ UNCHANGED <<overlayVisible, overlaySubs, overlayPc>>
  /\ UNCHANGED <<engineVars, svcVars, busVars, renderVars, animVars>>

\* bus.emit({type: 'debug/panel/unregister', id})
EmitUnregister(id) ==
  /\ LET r == unregisterPanel([panels |-> panels, activePanel |-> activePanel], id)
     IN  IF "debug/panel/unregister" \in overlaySubs
           THEN panels' = r.panels /\ activePanel' = r.activePanel
           ELSE UNCHANGED <<panels, activePanel>>
  /\ UNCHANGED <<overlayVisible, overlaySubs, overlayPc>>
  /\ UNCHANGED <<engineVars, svcVars, busVars, renderVars, animVars>>

NextOverlay ==
  \/ OverlayInit
  \/ OverlayDestroy
  \/ \E key \in Keys : EmitKeydown(key)
  \/ \E id \in PanelIds \cup {BuiltinPanel} : EmitRegister(id)
  \/ \E id \in PanelIds \cup {BuiltinPanel} : EmitUnregister(id)

SpecOverlay == Init /\ [][NextOverlay]_vars

\* C39: once destroy() of the debug overlay has run, no later input/keydown,
\* debug/panel/register or debug/panel/unregister event changes its panel set,
\* its active panel or its visibility.
C39_DestroyUnsubscribes ==
  [][overlayPc = "destroyed" => UNCHANGED <<panels, activePanel, overlayVisible>>]_vars


\* ----------------------------------------------------------------- Animator
AnimatorState ==
  [clip |-> clip, time |-> animTime, index |-> animIndex, dir |-> animDir,
   finished |-> finished]

\* animator.update(dt)
Update(dt) ==
  /\ LET r == update(AnimatorState, dt)
     IN  /\ animTime' = r.time
         /\ animIndex' = r.index
         /\ animDir' = r.dir
         /\ finished' = r.finished
  /\ UNCHANGED <<clip, plays>>
  /\ UNCHANGED <<engineVars, svcVars, busVars, renderVars, overlayVars>>

\* animator.play(clipName, reset); without reset the current index has to be a
\* frame of the new clip
Play(c, reset) ==
  /\ plays < MaxPlays
  /\ reset \/ animIndex < c.frames
  /\ plays' = plays + 1
  /\ clip' = normalizeClip(c)
  /\ animDir' = 1
  /\ finished' = FALSE
  /\ IF reset THEN animTime' = 0 /\ animIndex' = 0
              ELSE UNCHANGED <<animTime, animIndex>>
  /\ UNCHANGED <<engineVars, svcVars, busVars, renderVars, overlayVars>>

NextAnimator ==
  \/ \E dt \in 0..MaxDt : Update(dt)
  \/ \E c \in SheetClips, reset \in BOOLEAN : Play(c, reset)

\* update() keeps being called with a positive dt
SpecAnimator ==
  Init /\ [][NextAnimator]_vars /\ WF_vars(\E dt \in 1..MaxDt : Update(dt))

\* C40: for every non-looping clip, repeated update() calls eventually make
\* finished true, and it stays true (further updates change nothing) until
\* play() is called: once the calls of play() have ended, a non-looping clip
\* ends up finished for good.
C40_NonLoopingFinishes == <>[](clip.loop \/ finished)

====
